---- MODULE Spec2Model ----
(***************************************************************************)
(* A model of the command fallback runners of src/index.js:                *)
(*   runFirstAvailableCommand, runFirstAvailableCommandWithProgress and    *)
(*   runPowerShellScript, with the helpers they use.                       *)
(*                                                                         *)
(* One behaviour is one invocation of one of the three runners.  The host  *)
(* (sigma.shell, the cancellation token, the abort signal, the timer) is   *)
(* the environment: it settles promises, delivers ticks, requests          *)
(* cancellation and fires the timer at any moment at which JavaScript's    *)
(* event loop can run it, that is, while the runner is suspended at an     *)
(* await.  Every synchronous stretch of code between two awaits is one     *)
(* action.                                                                 *)
(***************************************************************************)
EXTENDS Integers, Sequences, FiniteSets, TLC

\* Longest candidate list handed to the two generic runners.
MaxCandidates == 3
\* Most activity ticks the host delivers during one invocation.
MaxTicks == 2
MaxTextLen == 4

----------------------------------------------------------------------------
(* JavaScript values *)

\* A thrown / rejected value.  kind "Error" is an Error object with .message
\* text; kind "string" is a thrown string; kind "other" is any other value,
\* text being String(value), and falsy telling whether the value is falsy
\* (null, undefined, 0).
JsError(message) == [kind |-> "Error", text |-> message, falsy |-> FALSE]
JsString(s) == [kind |-> "string", text |-> s, falsy |-> (s = "")]

\* String.prototype.toLowerCase on the characters the model's messages use.
LowerChar(c) ==
  CASE c = "A" -> "a" [] c = "B" -> "b" [] c = "C" -> "c" [] c = "D" -> "d"
    [] c = "E" -> "e" [] c = "F" -> "f" [] c = "G" -> "g" [] c = "H" -> "h"
    [] c = "I" -> "i" [] c = "J" -> "j" [] c = "K" -> "k" [] c = "L" -> "l"
    [] c = "M" -> "m" [] c = "N" -> "n" [] c = "O" -> "o" [] c = "P" -> "p"
    [] c = "Q" -> "q" [] c = "R" -> "r" [] c = "S" -> "s" [] c = "T" -> "t"
    [] c = "U" -> "u" [] c = "V" -> "v" [] c = "W" -> "w" [] c = "X" -> "x"
    [] c = "Y" -> "y" [] c = "Z" -> "z" [] OTHER -> c

\* The characters of s from position i on, in lower case.
RECURSIVE toLowerCaseFrom(_, _)
toLowerCaseFrom(s, i) ==
  IF i > Len(s) THEN ""
  ELSE LowerChar(SubSeq(s, i, i)) \o toLowerCaseFrom(s, i + 1)

toLowerCase(s) == toLowerCaseFrom(s, 1)

\* String.prototype.includes
includes(s, sub) ==
  \E i \in 1..(Len(s) - Len(sub) + 1) : SubSeq(s, i, i + Len(sub) - 1) = sub

getErrorMessage(error) == error.text

\* A slip isCommandNotFoundError could make: the message compared as it is,
\* without toLowerCase.
isCommandNotFoundError_CaseSensitive(error) ==
  LET errorMessage == getErrorMessage(error)
  IN  \/ includes(errorMessage, "not found")
      \/ includes(errorMessage, "does not exist")
      \/ includes(errorMessage, "cannot find")

isCommandNotFoundError(error) ==
  LET errorMessage == toLowerCase(getErrorMessage(error))
  IN  \/ includes(errorMessage, "not found")
      \/ includes(errorMessage, "does not exist")
      \/ includes(errorMessage, "cannot find")

\* JavaScript truthiness of a thrown value (the left operand of ||).
Truthy(v) == ~v.falsy

----------------------------------------------------------------------------
(* The values the environment can produce *)

\* null: the initial latestError, and a rejection with a falsy value.
Null == [kind |-> "other", text |-> "null", falsy |-> TRUE]

\* What a launch or result promise can reject with: three errors of the
\* NotFound class (an Error, an Error in mixed case, a thrown string) and
\* two that are not (an Error, a falsy value).
RejectionValues ==
  { JsError("deno: command not found"),
    JsError("The system Cannot Find the file specified"),
    JsString("path does not exist"),
    JsError("permission denied"),
    Null }

\* { code, stdout, stderr } of a process that ran to completion.
ExecutionResult(code, stdout, stderr) ==
  [code |-> code, stdout |-> stdout, stderr |-> stderr]

Results ==
  { ExecutionResult(0, "{\"output\":\"ok\"}", ""),
    ExecutionResult(1, "", "file not found"),
    ExecutionResult(2, "", "") }

\* Command identifiers, in the order the handlers list them: the resolved
\* deno path, the bare name, then the PowerShell fallbacks.
CommandPool ==
  << "/usr/bin/deno", "deno", "powershell", "pwsh",
     "C:\\Windows\\System32\\WindowsPowerShell\\v1.0\\powershell.exe" >>

CommandCandidate(command, args) == [command |-> command, args |-> args]

\* The candidate lists handed to the two generic runners: the lists of the
\* first n commands of the pool, n from 0 to MaxCandidates, so that the
\* commands of one list differ.
CandidateLists ==
  { [i \in 1..n |-> CommandCandidate(CommandPool[i], <<"arg">>)] :
    n \in 0..MaxCandidates }

Runners == {"runFirstAvailableCommand", "runFirstAvailableCommandWithProgress",
            "runPowerShellScript"}

\* How an async function ends.
Pending == [kind |-> "pending", value |-> Null]
Return(v) == [kind |-> "return", value |-> v]
Throw(e) == [kind |-> "throw", value |-> e]

\* progress.report increments, in tenths: 8 is 80, 0.4 is 4.
Tenths(whole, tenth) == whole * 10 + tenth

VARIABLES
  fn,                 \* the runner this invocation calls
  commandCandidates,  \* its candidate list
  pc,                 \* "idle", "awaitRun", "awaitLaunch", "awaitResult",
                      \* "done": the await the function is suspended at
  idx,                \* position of the for...of loop (0 before the loop)
  latestError,
  outcome,            \* Pending, Return(value) or Throw(error)
  progressValue,
  isCancellationRequested,   \* cancellationToken.isCancellationRequested
  requestedAt,        \* history: where the runner stood when the user cancelled
  listeners,          \* live onCancellationRequested registrations
  launched,           \* history: the launch calls made, in order
  attempts,           \* history: how each launched candidate settled
  procs,              \* candidate index -> "launching", "running", "settled"
  reports,            \* history: the progress.report calls, in order
  cancels,            \* history: runningCommand.cancel() calls, by candidate
  ticks,              \* activity ticks delivered so far
  isWindows,          \* sigma.platform.isWindows
  options,            \* the options argument of runPowerShellScript
  aborted,            \* options.signal.aborted
  timers,             \* armed timeout timers, by candidate
  signalListeners,    \* 'abort' listeners on options.signal, by candidate
  timedOut,           \* candidates whose timedOut flag is true
  call,               \* the helper function applied ("none" before the call)
  arg,                \* its argument
  value,              \* what it returned
  handler,            \* the handler invoked ("none" when none is)
  handlerPc,          \* the await the handler is suspended at
  hasInput,           \* the handler was given its input (a file, a JSON text)
  execution,          \* analysisExecution / systemInfoExecution
  shown,              \* history: what the handler showed to the user
  suspended,          \* a second invocation, waiting at its await
  demoPc,             \* where the demo-progress command stands
  itemIndex,          \* its loop variable
  processedItems,
  demoResult,         \* what withProgress resolved with
  demoRuns            \* invocations of the command that have ended

vars == <<fn, commandCandidates, pc, idx, latestError, outcome, progressValue,
          isCancellationRequested, requestedAt, listeners, launched, attempts,
          procs,
          reports, cancels, ticks, isWindows, options, aborted, timers,
          signalListeners, timedOut, call, arg, value, handler, handlerPc,
          hasInput, execution, shown, suspended, demoPc, itemIndex,
          processedItems, demoResult, demoRuns>>

\* The state of a call of one of the helper functions.
helperVars == <<call, arg, value>>

\* No helper function is being called.
NoHelperCall == call = "none" /\ arg = Null /\ value = Null

\* The state of a handler registered by activate.
handlerVars ==
  <<handler, handlerPc, hasInput, execution, shown>>

\* No handler is invoked.
NoHandler ==
  /\ handler = "none"
  /\ handlerPc = "none"
  /\ hasInput = FALSE
  /\ execution = Null
  /\ shown = <<>>

\* The second invocation, when two run interleaved.
pairVars == <<suspended>>

\* One invocation runs.
NoPair == suspended = Null

\* The state of the demo-progress command.
demoVars == <<demoPc, itemIndex, processedItems, demoResult, demoRuns>>

\* The demo-progress command is not invoked.
NoDemo ==
  /\ demoPc = "none"
  /\ itemIndex = 0
  /\ processedItems = 0
  /\ demoResult = Null
  /\ demoRuns = 0

\* The state only runPowerShellScript uses.
psVars == <<isWindows, options, aborted, timers, signalListeners, timedOut>>

\* options of runPowerShellScript: timeout is a number (0 stands for every
\* value that is not a positive number, undefined included), signal tells
\* whether an AbortSignal is given, parseOutput whether a parser is given.
NoOptions == [timeout |-> 0, signal |-> FALSE, parseOutput |-> FALSE]
PowerShellOptions ==
  [timeout : {0, 15000}, signal : BOOLEAN, parseOutput : BOOLEAN]

ProcState(ps, i) == IF i \in DOMAIN ps THEN ps[i] ELSE "none"

\* The call sigma.shell.run / runWithProgress (command, args) of candidate i.
Launch(cands, i) ==
  [index |-> i, command |-> cands[i].command, args |-> cands[i].args]

Rejected(at, e) == [settled |-> "rejected", at |-> at, value |-> e]
Resolved(at, r) == [settled |-> "resolved", at |-> at, value |-> r]

Init ==
  /\ fn \in Runners
  /\ commandCandidates \in
       IF fn = "runPowerShellScript" THEN {<<>>} ELSE CandidateLists
  /\ pc = "idle"
  /\ idx = 0
  /\ latestError = Null
  /\ outcome = Pending
  /\ progressValue = Tenths(8, 0)
  /\ isCancellationRequested = FALSE
  /\ requestedAt = [pc |-> "never", idx |-> 0]
  /\ listeners = {}
  /\ launched = <<>>
  /\ attempts = <<>>
  /\ procs = <<>>
  /\ reports = <<>>
  /\ cancels = <<>>
  /\ ticks = 0
  /\ isWindows \in IF fn = "runPowerShellScript" THEN BOOLEAN ELSE {TRUE}
  /\ options \in IF fn = "runPowerShellScript" THEN PowerShellOptions
                 ELSE {NoOptions}
  /\ aborted = FALSE
  /\ timers = {}
  /\ signalListeners = {}
  /\ timedOut = {}
  /\ NoHelperCall
  /\ NoHandler
  /\ NoPair
  /\ NoDemo

----------------------------------------------------------------------------
(* runFirstAvailableCommand *)

\* A slip RunIterate could make: the generic error on exhaustion even when
\* an error was remembered.
RunIterate_ForgetsLatest(i, err, ps) ==
  /\ idx' = i
  /\ latestError' = err
  /\ IF i > Len(commandCandidates)
     THEN /\ pc' = "done"
          /\ outcome' = Throw(JsError("No available command candidates"))
          /\ launched' = launched
          /\ procs' = ps
     ELSE /\ pc' = "awaitRun"
          /\ outcome' = outcome
          /\ launched' = Append(launched, Launch(commandCandidates, i))
          /\ procs' = (i :> "running") @@ ps

\* The for...of loop reaches position i with latestError = err, the
\* processes being in state ps: either the list is exhausted (line 172) or
\* candidate i is launched and the function suspends at the await (line 161).
RunIterate(i, err, ps) ==
  /\ idx' = i
  /\ latestError' = err
  /\ IF i > Len(commandCandidates)
     THEN /\ pc' = "done"
          /\ outcome' = Throw(IF Truthy(err) THEN err
                              ELSE JsError("No available command candidates"))
          /\ launched' = launched
          /\ procs' = ps
     ELSE /\ pc' = "awaitRun"
          /\ outcome' = outcome
          /\ launched' = Append(launched, Launch(commandCandidates, i))
          /\ procs' = (i :> "running") @@ ps

RunCall ==
  /\ fn = "runFirstAvailableCommand"
  /\ pc = "idle"
  /\ RunIterate(1, Null, procs)
  /\ UNCHANGED <<helperVars, handlerVars, pairVars, demoVars>>
  /\ UNCHANGED <<fn, commandCandidates, progressValue,
                 isCancellationRequested, requestedAt,
                 listeners, attempts, reports, cancels, ticks,
                 psVars>>

\* sigma.shell.run resolves: line 162.
RunResolved(result) ==
  /\ fn = "runFirstAvailableCommand"
  /\ pc = "awaitRun"
  /\ attempts' = Append(attempts, Resolved("run", result))
  /\ procs' = [procs EXCEPT ![idx] = "settled"]
  /\ pc' = "done"
  /\ outcome' = Return([result |-> result,
                        commandName |-> commandCandidates[idx].command])
  /\ UNCHANGED <<helperVars, handlerVars, pairVars, demoVars>>
  /\ UNCHANGED <<fn, commandCandidates, idx, latestError, progressValue,
                 isCancellationRequested, requestedAt, listeners, launched,
                 reports,
                 cancels, ticks,
                 psVars>>

\* A slip RunCatch could make: throwing latestError || a generic error, as
\* line 172 does, instead of the caught value.
RunCatch_OrGeneric(error) ==
  IF isCommandNotFoundError(error)
  THEN RunIterate(idx + 1, error, [procs EXCEPT ![idx] = "settled"])
  ELSE /\ latestError' = error
       /\ pc' = "done"
       /\ outcome' = Throw(IF Truthy(error) THEN error
                           ELSE JsError("No available command candidates"))
       /\ procs' = [procs EXCEPT ![idx] = "settled"]
       /\ UNCHANGED <<idx, launched>>

\* The catch clause of runFirstAvailableCommand, lines 163-169.
RunCatch(error) ==
  IF isCommandNotFoundError(error)
  THEN RunIterate(idx + 1, error, [procs EXCEPT ![idx] = "settled"])
  ELSE /\ latestError' = error
       /\ pc' = "done"
       /\ outcome' = Throw(error)
       /\ procs' = [procs EXCEPT ![idx] = "settled"]
       /\ UNCHANGED <<idx, launched>>

\* sigma.shell.run rejects.
RunRejected(error) ==
  /\ fn = "runFirstAvailableCommand"
  /\ pc = "awaitRun"
  /\ attempts' = Append(attempts, Rejected("run", error))
  /\ RunCatch(error)
  /\ UNCHANGED <<helperVars, handlerVars, pairVars, demoVars>>
  /\ UNCHANGED <<fn, commandCandidates, progressValue,
                 isCancellationRequested, requestedAt,
                 listeners, reports, cancels, ticks,
                 psVars>>

----------------------------------------------------------------------------
(* runFirstAvailableCommandWithProgress *)

\* One progress.report call.
Report(phase, command, increment) ==
  [phase |-> phase, command |-> command, increment |-> increment]

\* The callbacks of the registrations in ls fire, in the order they were
\* registered (candidates are registered in list order): each calls cancel()
\* on its own runningCommand (line 225).
RECURSIVE FireAll(_, _)
FireAll(log, ls) ==
  IF ls = {} THEN log
  ELSE LET k == CHOOSE m \in ls : \A n \in ls : m <= n
       IN  FireAll(Append(log, k), ls \ {k})

\* A slip ProgressIterate could make: progressValue not reset after the first
\* report (line 209 missing).
ProgressIterate_KeepsIncrement(i, err, ps) ==
  /\ idx' = i
  /\ latestError' = err
  /\ IF i > Len(commandCandidates)
     THEN /\ pc' = "done"
          /\ outcome' = Throw(IF Truthy(err) THEN err
                              ELSE JsError("No available command candidates"))
          /\ procs' = ps
          /\ UNCHANGED <<launched, reports, progressValue>>
     ELSE IF isCancellationRequested
     THEN /\ pc' = "done"
          /\ outcome' = Return([cancelled |-> TRUE])
          /\ procs' = ps
          /\ UNCHANGED <<launched, reports, progressValue>>
     ELSE /\ reports' = Append(reports,
             Report("Running", commandCandidates[i].command, progressValue))
          /\ progressValue' = progressValue
          /\ launched' = Append(launched, Launch(commandCandidates, i))
          /\ procs' = (i :> "launching") @@ ps
          /\ pc' = "awaitLaunch"
          /\ outcome' = outcome

\* The loop reaches position i with latestError = err and the processes in
\* state ps: the list is exhausted (line 253), or cancellation is seen at the
\* loop head (lines 200-202), or candidate i is reported and launched and the
\* function suspends at the await of line 211.
ProgressIterate(i, err, ps) ==
  /\ idx' = i
  /\ latestError' = err
  /\ IF i > Len(commandCandidates)
     THEN /\ pc' = "done"
          /\ outcome' = Throw(IF Truthy(err) THEN err
                              ELSE JsError("No available command candidates"))
          /\ procs' = ps
          /\ UNCHANGED <<launched, reports, progressValue>>
     ELSE IF isCancellationRequested
     THEN /\ pc' = "done"
          /\ outcome' = Return([cancelled |-> TRUE])
          /\ procs' = ps
          /\ UNCHANGED <<launched, reports, progressValue>>
     ELSE /\ reports' = Append(reports,
             Report("Running", commandCandidates[i].command, progressValue))
          /\ progressValue' = 0
          /\ launched' = Append(launched, Launch(commandCandidates, i))
          /\ procs' = (i :> "launching") @@ ps
          /\ pc' = "awaitLaunch"
          /\ outcome' = outcome

ProgressCall ==
  /\ fn = "runFirstAvailableCommandWithProgress"
  /\ pc = "idle"
  /\ ProgressIterate(1, Null, procs)
  /\ UNCHANGED <<helperVars, handlerVars, pairVars, demoVars>>
  /\ UNCHANGED <<fn, commandCandidates, isCancellationRequested, requestedAt,
                 listeners,
                 attempts, cancels, ticks,
                 psVars>>

\* A slip ProgressCatch could make: classifying the error before looking at
\* the token.
ProgressCatch_ClassifiesFirst(error, ps) ==
  IF isCommandNotFoundError(error)
  THEN ProgressIterate(idx + 1, error, ps)
  ELSE IF isCancellationRequested
  THEN /\ latestError' = error
       /\ pc' = "done"
       /\ outcome' = Return([cancelled |-> TRUE])
       /\ procs' = ps
       /\ UNCHANGED <<idx, launched, reports, progressValue>>
  ELSE /\ latestError' = error
       /\ pc' = "done"
       /\ outcome' = Throw(error)
       /\ procs' = ps
       /\ UNCHANGED <<idx, launched, reports, progressValue>>

\* The catch clause, lines 238-250, the processes being in state ps.
ProgressCatch(error, ps) ==
  IF isCancellationRequested
  THEN /\ latestError' = error
       /\ pc' = "done"
       /\ outcome' = Return([cancelled |-> TRUE])
       /\ procs' = ps
       /\ UNCHANGED <<idx, launched, reports, progressValue>>
  ELSE IF isCommandNotFoundError(error)
  THEN ProgressIterate(idx + 1, error, ps)
  ELSE /\ latestError' = error
       /\ pc' = "done"
       /\ outcome' = Throw(error)
       /\ procs' = ps
       /\ UNCHANGED <<idx, launched, reports, progressValue>>

\* sigma.shell.runWithProgress rejects: no process, no registration.
ProgressLaunchRejected(error) ==
  /\ fn = "runFirstAvailableCommandWithProgress"
  /\ pc = "awaitLaunch"
  /\ attempts' = Append(attempts, Rejected("launch", error))
  /\ ProgressCatch(error, [procs EXCEPT ![idx] = "settled"])
  /\ UNCHANGED <<helperVars, handlerVars, pairVars, demoVars>>
  /\ UNCHANGED <<fn, commandCandidates, isCancellationRequested, requestedAt,
                 listeners,
                 cancels, ticks,
                 psVars>>

\* sigma.shell.runWithProgress resolves with runningCommand: the callback is
\* registered (lines 224-226) and the function suspends at line 229.  What
\* a token that is already cancelled does with a new callback is the host's
\* choice: it calls it at once (fires) or never.
ProgressLaunchResolved(fires) ==
  /\ fn = "runFirstAvailableCommandWithProgress"
  /\ pc = "awaitLaunch"
  /\ procs' = [procs EXCEPT ![idx] = "running"]
  /\ listeners' = listeners \cup {idx}
  /\ cancels' = IF isCancellationRequested /\ fires
                THEN Append(cancels, idx) ELSE cancels
  /\ fires => isCancellationRequested
  /\ pc' = "awaitResult"
  /\ UNCHANGED <<helperVars, handlerVars, pairVars, demoVars>>
  /\ UNCHANGED <<fn, commandCandidates, idx, latestError, outcome,
                 progressValue, isCancellationRequested, requestedAt, launched,
                 attempts,
                 reports, ticks,
                 psVars>>

\* A slip ProgressResultResolved could make: the command name of the first
\* candidate instead of the current one.
ProgressResultResolved_FirstName(result) ==
  /\ fn = "runFirstAvailableCommandWithProgress"
  /\ pc = "awaitResult"
  /\ attempts' = Append(attempts, Resolved("result", result))
  /\ procs' = [procs EXCEPT ![idx] = "settled"]
  /\ listeners' = listeners \ {idx}
  /\ pc' = "done"
  /\ outcome' = Return([cancelled |-> FALSE, result |-> result,
                        commandName |-> commandCandidates[1].command])
  /\ UNCHANGED <<helperVars, handlerVars, pairVars, demoVars>>
  /\ UNCHANGED <<fn, commandCandidates, idx, latestError, progressValue,
                 isCancellationRequested, requestedAt, launched, reports,
                 cancels, ticks, psVars>>

\* A slip ProgressResultResolved could make: a non-zero exit turned into an
\* error and classified, as runPowerShellScript does.
ProgressResultResolved_ThrowsNonZero(result) ==
  /\ fn = "runFirstAvailableCommandWithProgress"
  /\ pc = "awaitResult"
  /\ attempts' = Append(attempts, Resolved("result", result))
  /\ listeners' = listeners \ {idx}
  /\ IF result.code # 0
     THEN ProgressCatch(JsError(result.stderr),
                        [procs EXCEPT ![idx] = "settled"])
     ELSE /\ procs' = [procs EXCEPT ![idx] = "settled"]
          /\ pc' = "done"
          /\ outcome' = Return([cancelled |-> FALSE, result |-> result,
                         commandName |-> commandCandidates[idx].command])
          /\ UNCHANGED <<idx, latestError, progressValue, launched, reports>>
  /\ UNCHANGED <<helperVars, handlerVars, pairVars, demoVars>>
  /\ UNCHANGED <<fn, commandCandidates, isCancellationRequested, requestedAt,
                 cancels, ticks, psVars>>

\* runningCommand.result resolves: lines 229-237.
ProgressResultResolved(result) ==
  /\ fn = "runFirstAvailableCommandWithProgress"
  /\ pc = "awaitResult"
  /\ attempts' = Append(attempts, Resolved("result", result))
  /\ procs' = [procs EXCEPT ![idx] = "settled"]
  /\ listeners' = listeners \ {idx}
  /\ pc' = "done"
  /\ outcome' = Return([cancelled |-> FALSE, result |-> result,
                        commandName |-> commandCandidates[idx].command])
  /\ UNCHANGED <<helperVars, handlerVars, pairVars, demoVars>>
  /\ UNCHANGED <<fn, commandCandidates, idx, latestError, progressValue,
                 isCancellationRequested, requestedAt, launched, reports,
                 cancels, ticks,
                 psVars>>

\* A slip ProgressResultRejected could make: no finally, the registration
\* left in place when the result rejects.
ProgressResultRejected_NoDispose(error) ==
  /\ fn = "runFirstAvailableCommandWithProgress"
  /\ pc = "awaitResult"
  /\ attempts' = Append(attempts, Rejected("result", error))
  /\ listeners' = listeners
  /\ ProgressCatch(error, [procs EXCEPT ![idx] = "settled"])
  /\ UNCHANGED <<helperVars, handlerVars, pairVars, demoVars>>
  /\ UNCHANGED <<fn, commandCandidates, isCancellationRequested, requestedAt,
                 cancels, ticks, psVars>>

\* runningCommand.result rejects: the finally of line 236, then the catch.
ProgressResultRejected(error) ==
  /\ fn = "runFirstAvailableCommandWithProgress"
  /\ pc = "awaitResult"
  /\ attempts' = Append(attempts, Rejected("result", error))
  /\ listeners' = listeners \ {idx}
  /\ ProgressCatch(error, [procs EXCEPT ![idx] = "settled"])
  /\ UNCHANGED <<helperVars, handlerVars, pairVars, demoVars>>
  /\ UNCHANGED <<fn, commandCandidates, isCancellationRequested, requestedAt,
                 cancels,
                 ticks,
                 psVars>>

\* A slip ProgressTick could make: reporting without looking at the token.
ProgressTick_Unguarded(k) ==
  /\ fn = "runFirstAvailableCommandWithProgress"
  /\ ProcState(procs, k) = "running"
  /\ ticks < MaxTicks
  /\ ticks' = ticks + 1
  /\ reports' = Append(reports,
       Report("Analyzing", commandCandidates[k].command, Tenths(0, 4)))
  /\ UNCHANGED <<helperVars, handlerVars, pairVars, demoVars>>
  /\ UNCHANGED <<fn, commandCandidates, pc, idx, latestError, outcome,
                 progressValue, isCancellationRequested, requestedAt,
                 listeners, launched, attempts, procs, cancels, psVars>>

\* The onTick callback of candidate k, lines 214-221.
ProgressTick(k) ==
  /\ fn = "runFirstAvailableCommandWithProgress"
  /\ ProcState(procs, k) = "running"
  /\ ticks < MaxTicks
  /\ ticks' = ticks + 1
  /\ reports' = IF ~isCancellationRequested
                THEN Append(reports,
                  Report("Analyzing", commandCandidates[k].command,
                         Tenths(0, 4)))
                ELSE reports
  /\ UNCHANGED <<helperVars, handlerVars, pairVars, demoVars>>
  /\ UNCHANGED <<fn, commandCandidates, pc, idx, latestError, outcome,
                 progressValue, isCancellationRequested, requestedAt,
                 listeners, launched,
                 attempts, procs, cancels,
                 psVars>>

\* The user cancels: the token's flag is set and the live callbacks run.
RequestCancellation ==
  /\ fn = "runFirstAvailableCommandWithProgress"
  /\ ~isCancellationRequested
  /\ isCancellationRequested' = TRUE
  /\ requestedAt' = [pc |-> pc, idx |-> idx]
  /\ cancels' = FireAll(cancels, listeners)
  /\ UNCHANGED <<helperVars, handlerVars, pairVars, demoVars>>
  /\ UNCHANGED <<fn, commandCandidates, pc, idx, latestError, outcome,
                 progressValue, listeners, launched, attempts, procs, reports,
                 ticks,
                 psVars>>

----------------------------------------------------------------------------
(* runPowerShellScript *)

\* The state only runFirstAvailableCommandWithProgress uses.
progressVars ==
  <<progressValue, isCancellationRequested, requestedAt, listeners, reports>>

Scripts == {"Get-Process"}

getWindowsPowerShellCandidates(script) ==
  << CommandCandidate("powershell", <<"-NoProfile", "-Command", script>>),
     CommandCandidate("pwsh", <<"-NoProfile", "-Command", script>>),
     CommandCandidate(
       "C:\\Windows\\System32\\WindowsPowerShell\\v1.0\\powershell.exe",
       <<"-NoProfile", "-Command", script>>) >>

\* Array.prototype.join(' ')
RECURSIVE JoinWithSpace(_)
JoinWithSpace(args) ==
  IF Len(args) = 0 THEN ""
  ELSE IF Len(args) = 1 THEN args[1]
  ELSE args[1] \o " " \o JoinWithSpace(Tail(args))

\* Lines 39-41.
Timeout(opts) == IF opts.timeout > 0 THEN opts.timeout ELSE 10000

\* What parseOutput receives (lines 94-102).  The default parser returns
\* stdout (line 44); a given parser is taken to return what it is handed.
ParseInput(candidate, result, flag) ==
  [stdout |-> result.stdout, stderr |-> result.stderr,
   exitCode |-> result.code, timedOut |-> flag,
   command |-> candidate.command \o " " \o JoinWithSpace(candidate.args)]

ParseOutput(opts, input) ==
  IF opts.parseOutput THEN [parsed |-> input] ELSE [parsed |-> input.stdout]

\* Line 88: the error made of a non-zero exit.
ExecutionError(candidate, result) ==
  JsError(IF result.stderr # "" THEN result.stderr
          ELSE candidate.command \o " exited with code "
                 \o ToString(result.code))

\* A slip PsIterate could make: the list walked from its end.
PsIterate_FromTheEnd(cands, i, err, ps) ==
  /\ idx' = i
  /\ latestError' = err
  /\ IF i > Len(cands)
     THEN /\ pc' = "done"
          /\ outcome' = Throw(IF Truthy(err) THEN err
                 ELSE JsError("No available PowerShell command candidates"))
          /\ procs' = ps
          /\ launched' = launched
     ELSE /\ pc' = "awaitLaunch"
          /\ outcome' = outcome
          /\ launched' = Append(launched, Launch(cands, Len(cands) + 1 - i))
          /\ procs' = (i :> "launching") @@ ps

\* The loop over cands reaches position i with latestError = err: the list is
\* exhausted (line 119) or candidate i is launched (line 55).
PsIterate(cands, i, err, ps) ==
  /\ idx' = i
  /\ latestError' = err
  /\ IF i > Len(cands)
     THEN /\ pc' = "done"
          /\ outcome' = Throw(IF Truthy(err) THEN err
                 ELSE JsError("No available PowerShell command candidates"))
          /\ procs' = ps
          /\ launched' = launched
     ELSE /\ pc' = "awaitLaunch"
          /\ outcome' = outcome
          /\ launched' = Append(launched, Launch(cands, i))
          /\ procs' = (i :> "launching") @@ ps

\* Lines 34-55.
PsCall ==
  /\ fn = "runPowerShellScript"
  /\ pc = "idle"
  /\ IF ~isWindows
     THEN /\ pc' = "done"
          /\ outcome' = Throw(JsError(
               "PowerShell script execution is only supported on Windows."))
          /\ UNCHANGED <<commandCandidates, idx, latestError, launched, procs>>
     ELSE \E script \in Scripts :
          /\ commandCandidates' = getWindowsPowerShellCandidates(script)
          /\ PsIterate(commandCandidates', 1, Null, procs)
  /\ UNCHANGED <<helperVars, handlerVars, pairVars, demoVars>>
  /\ UNCHANGED <<fn, attempts, cancels, ticks, progressVars, psVars>>

\* The catch clause, lines 103-108.
PsCatch(error, ps) ==
  IF isCommandNotFoundError(error)
  THEN PsIterate(commandCandidates, idx + 1, error, ps)
  ELSE /\ latestError' = error
       /\ pc' = "done"
       /\ outcome' = Throw(error)
       /\ procs' = ps
       /\ UNCHANGED <<idx, launched>>

\* A slip PsFinally could make: the timer left armed (lines 110-112 missing).
PsFinally_KeepsTimer ==
  /\ timers' = timers
  /\ signalListeners' = signalListeners \ {idx}

\* The finally clause, lines 109-116: this attempt's timer is cleared and
\* its listener removed.
PsFinally ==
  /\ timers' = timers \ {idx}
  /\ signalListeners' = signalListeners \ {idx}

\* sigma.shell.runWithProgress rejects: timeoutHandle and
\* abortSignalListener are still null.
PsLaunchRejected(error) ==
  /\ fn = "runPowerShellScript"
  /\ pc = "awaitLaunch"
  /\ attempts' = Append(attempts, Rejected("launch", error))
  /\ PsCatch(error, [procs EXCEPT ![idx] = "settled"])
  /\ UNCHANGED <<helperVars, handlerVars, pairVars, demoVars>>
  /\ UNCHANGED <<fn, commandCandidates, cancels, ticks, progressVars, psVars>>

\* sigma.shell.runWithProgress resolves: lines 61-84.
PsLaunchResolved ==
  /\ fn = "runPowerShellScript"
  /\ pc = "awaitLaunch"
  /\ procs' = [procs EXCEPT ![idx] = "running"]
  /\ timers' = IF Timeout(options) > 0 THEN timers \cup {idx} ELSE timers
  /\ IF options.signal /\ aborted
     THEN /\ cancels' = Append(cancels, idx)
          /\ signalListeners' = signalListeners
     ELSE IF options.signal
     THEN /\ cancels' = cancels
          /\ signalListeners' = signalListeners \cup {idx}
     ELSE UNCHANGED <<cancels, signalListeners>>
  /\ pc' = "awaitResult"
  /\ UNCHANGED <<helperVars, handlerVars, pairVars, demoVars>>
  /\ UNCHANGED <<fn, commandCandidates, idx, latestError, outcome, launched,
                 attempts, ticks, progressVars, isWindows, options, aborted,
                 timedOut>>

\* A slip PsTimeout could make: the timeout as a race, the loop moving on to
\* the next candidate when the timer fires instead of awaiting the result.
PsTimeout_Race(k) ==
  /\ fn = "runPowerShellScript"
  /\ k \in timers
  /\ pc = "awaitResult"
  /\ timers' = timers \ {k}
  /\ timedOut' = timedOut \cup {k}
  /\ cancels' = Append(cancels, k)
  /\ PsIterate(commandCandidates, idx + 1, JsError("timed out"), procs)
  /\ UNCHANGED <<helperVars, handlerVars, pairVars, demoVars>>
  /\ UNCHANGED <<fn, commandCandidates, attempts, ticks, progressVars,
                 isWindows, options, aborted, signalListeners>>

\* The timer callback of candidate k, lines 62-67.
PsTimeout(k) ==
  /\ fn = "runPowerShellScript"
  /\ k \in timers
  /\ timers' = timers \ {k}
  /\ timedOut' = timedOut \cup {k}
  /\ cancels' = IF ProcState(procs, k) # "none" THEN Append(cancels, k)
                ELSE cancels
  /\ UNCHANGED <<helperVars, handlerVars, pairVars, demoVars>>
  /\ UNCHANGED <<fn, commandCandidates, pc, idx, latestError, outcome,
                 launched, attempts, procs, ticks, progressVars, isWindows,
                 options, aborted, signalListeners>>

\* options.signal is aborted: the 'abort' listeners run, each once.
Abort ==
  /\ fn = "runPowerShellScript"
  /\ options.signal
  /\ ~aborted
  /\ aborted' = TRUE
  /\ cancels' = FireAll(cancels, signalListeners)
  /\ signalListeners' = {}
  /\ UNCHANGED <<helperVars, handlerVars, pairVars, demoVars>>
  /\ UNCHANGED <<fn, commandCandidates, pc, idx, latestError, outcome,
                 launched, attempts, procs, ticks, progressVars, isWindows,
                 options, timers, timedOut>>

\* runningCommand.result resolves: lines 84-102, then the finally.
PsResultResolved(result) ==
  /\ fn = "runPowerShellScript"
  /\ pc = "awaitResult"
  /\ attempts' = Append(attempts, Resolved("result", result))
  /\ PsFinally
  /\ IF result.code # 0
     THEN PsCatch(ExecutionError(commandCandidates[idx], result),
                  [procs EXCEPT ![idx] = "settled"])
     ELSE /\ pc' = "done"
          /\ outcome' = Return(ParseOutput(options,
               ParseInput(commandCandidates[idx], result, idx \in timedOut)))
          /\ procs' = [procs EXCEPT ![idx] = "settled"]
          /\ UNCHANGED <<idx, latestError, launched>>
  /\ UNCHANGED <<helperVars, handlerVars, pairVars, demoVars>>
  /\ UNCHANGED <<fn, commandCandidates, cancels, ticks, progressVars,
                 isWindows, options, aborted, timedOut>>

\* runningCommand.result rejects.
PsResultRejected(error) ==
  /\ fn = "runPowerShellScript"
  /\ pc = "awaitResult"
  /\ attempts' = Append(attempts, Rejected("result", error))
  /\ PsFinally
  /\ PsCatch(error, [procs EXCEPT ![idx] = "settled"])
  /\ UNCHANGED <<helperVars, handlerVars, pairVars, demoVars>>
  /\ UNCHANGED <<fn, commandCandidates, cancels, ticks, progressVars,
                 isWindows, options, aborted, timedOut>>

\* The onTick callback handed to the host, line 58: it does nothing.
PsTick(k) ==
  /\ fn = "runPowerShellScript"
  /\ ProcState(procs, k) = "running"
  /\ ticks < MaxTicks
  /\ ticks' = ticks + 1
  /\ UNCHANGED <<helperVars, handlerVars, pairVars, demoVars>>
  /\ UNCHANGED <<fn, commandCandidates, pc, idx, latestError, outcome,
                 launched, attempts, procs, cancels, progressVars, psVars>>

Next ==
  \/ RunCall
  \/ \E result \in Results : RunResolved(result)
  \/ \E error \in RejectionValues : RunRejected(error)
  \/ ProgressCall
  \/ \E error \in RejectionValues : ProgressLaunchRejected(error)
  \/ \E fires \in BOOLEAN : ProgressLaunchResolved(fires)
  \/ \E result \in Results : ProgressResultResolved(result)
  \/ \E error \in RejectionValues : ProgressResultRejected(error)
  \/ \E k \in DOMAIN procs : ProgressTick(k)
  \/ RequestCancellation
  \/ PsCall
  \/ \E error \in RejectionValues : PsLaunchRejected(error)
  \/ PsLaunchResolved
  \/ \E k \in timers : PsTimeout(k)
  \/ Abort
  \/ \E result \in Results : PsResultResolved(result)
  \/ \E error \in RejectionValues : PsResultRejected(error)
  \/ \E k \in DOMAIN procs : PsTick(k)

Spec == Init /\ [][Next]_vars

----------------------------------------------------------------------------
(* Properties of the runners *)

\* The two runners that take a candidate list.
ListRunner ==
  fn \in {"runFirstAvailableCommand", "runFirstAvailableCommandWithProgress"}

\* Attempt a ended in a rejection of the NotFound class.
NotFoundAttempt(a) ==
  a.settled = "rejected" /\ isCommandNotFoundError(a.value)

\* The launch calls of candidates 1..n, each once and in list order.
LaunchesUpTo(n) == [i \in 1..n |-> Launch(commandCandidates, i)]

\* The function returned result r under the command name of candidate n.
ReturnedResultOf(n, r) ==
  /\ outcome.kind = "return"
  /\ "result" \in DOMAIN outcome.value
  /\ outcome.value.result = r
  /\ outcome.value.commandName = commandCandidates[n].command

\* C1: with the token never cancelled, when candidates 1..K each failed with
\* a NotFound-class error and the process of candidate K+1 completed, the
\* runner has launched exactly candidates 1..K+1, each once and in list
\* order, and has returned candidate K+1's result and command identifier.
C1_FirstAvailableWins ==
  LET n == Len(attempts) IN
  ( /\ ListRunner
    /\ ~isCancellationRequested
    /\ n >= 1
    /\ attempts[n].settled = "resolved"
    /\ \A i \in 1..(n - 1) : NotFoundAttempt(attempts[i]) )
  => /\ launched = LaunchesUpTo(n)
     /\ ReturnedResultOf(n, attempts[n].value)

\* Two candidates were not found ('deno: command not found' first) and the
\* third one ran.
C1_Witness ==
  /\ fn = "runFirstAvailableCommandWithProgress"
  /\ ~isCancellationRequested
  /\ Len(attempts) = 3
  /\ attempts[1] = Rejected("launch", JsError("deno: command not found"))
  /\ NotFoundAttempt(attempts[2])
  /\ attempts[3].settled = "resolved"
  /\ pc = "done"

\* C2: with the token never cancelled, when the attempt of candidate K
\* failed with an error that is not of the NotFound class, no candidate
\* after K is launched and that same error value is thrown to the caller.
C2_FatalErrorPropagates ==
  LET n == Len(attempts) IN
  ( /\ ListRunner
    /\ ~isCancellationRequested
    /\ n >= 1
    /\ attempts[n].settled = "rejected"
    /\ ~isCommandNotFoundError(attempts[n].value) )
  => /\ launched = LaunchesUpTo(n)
     /\ outcome = Throw(attempts[n].value)

\* The second candidate of three failed with a falsy rejection value.
C2_Witness ==
  /\ fn = "runFirstAvailableCommand"
  /\ Len(commandCandidates) = 3
  /\ Len(attempts) = 2
  /\ attempts[2] = Rejected("run", Null)
  /\ pc = "done"

\* C3: with no cancellation requested, when every candidate of a non-empty
\* list failed with a NotFound-class error, every candidate was launched
\* once, in order, and the runner throws the last candidate's error, whose
\* message is not empty; for the empty list the runner launches nothing and
\* throws the generic error 'No available command candidates'.
C3_Exhausted ==
  LET n == Len(commandCandidates) IN
  (ListRunner /\ ~isCancellationRequested) =>
    /\ ( /\ n > 0
         /\ Len(attempts) = n
         /\ \A i \in 1..n : NotFoundAttempt(attempts[i]) )
       => /\ launched = LaunchesUpTo(n)
          /\ outcome = Throw(attempts[n].value)
          /\ getErrorMessage(outcome.value) # ""
    /\ (n = 0 /\ pc = "done")
       => /\ launched = <<>>
          /\ outcome = Throw(JsError("No available command candidates"))

\* All three candidates of a list were not found.
C3_Witness ==
  /\ ListRunner
  /\ ~isCancellationRequested
  /\ Len(commandCandidates) = 3
  /\ Len(attempts) = 3
  /\ \A i \in 1..3 : NotFoundAttempt(attempts[i])
  /\ pc = "done"

\* C4: a candidate whose process completes with a non-zero exit code ends
\* the run: its result is returned unchanged as a normal return value,
\* nothing is thrown and no later candidate is launched, whatever stderr is.
C4_NonZeroExitIsAResult ==
  LET n == Len(attempts) IN
  ( /\ ListRunner
    /\ n >= 1
    /\ attempts[n].settled = "resolved"
    /\ attempts[n].value.code # 0 )
  => /\ launched = LaunchesUpTo(n)
     /\ ReturnedResultOf(n, attempts[n].value)

\* The first candidate of several exited with code 1 and a stderr that reads
\* like a NotFound error.
C4_Witness ==
  /\ fn = "runFirstAvailableCommandWithProgress"
  /\ Len(commandCandidates) > 1
  /\ attempts = <<Resolved("result", ExecutionResult(1, "", "file not found"))>>
  /\ pc = "done"

\* The call made while the token was already cancelled.
CancelledBeforeCall == requestedAt.pc = "idle"

\* The user cancelled while candidate requestedAt.idx was being launched or
\* was running.
CancelledDuringAttempt == requestedAt.pc \in {"awaitLaunch", "awaitResult"}

\* How often cancel() was called on the process of candidate k.
CancelCalls(log, k) == Cardinality({j \in 1..Len(log) : log[j] = k})

\* C5: when the token is already cancelled at the call,
\* runFirstAvailableCommandWithProgress returns {cancelled: true} for every
\* candidate list, the empty one included, and makes no runWithProgress
\* call, no progress report and no callback registration.
C5_CancelledBeforeCall ==
  ( /\ fn = "runFirstAvailableCommandWithProgress"
    /\ CancelledBeforeCall
    /\ pc = "done" )
  => /\ outcome = Return([cancelled |-> TRUE])
     /\ launched = <<>>
     /\ reports = <<>>
     /\ listeners = {}

\* C6: when cancellation is requested while candidate K is being launched or
\* is running, cancel() is invoked at most once on K's process, the function
\* returns {cancelled: true}, whether K's result then resolves or rejects,
\* and candidate K+1 is never launched.
C6_CancelledWhileRunning ==
  ( /\ fn = "runFirstAvailableCommandWithProgress"
    /\ CancelledDuringAttempt
    /\ pc = "done" )
  => /\ CancelCalls(cancels, requestedAt.idx) <= 1
     /\ outcome = Return([cancelled |-> TRUE])
     /\ Len(launched) = requestedAt.idx

\* C7: once isCancellationRequested is true, no step makes a further
\* runWithProgress call or a further progress.report call.
C7_NothingAfterCancellation ==
  [][isCancellationRequested =>
       (launched' = launched /\ reports' = reports)]_vars

\* A tick arrived after the user cancelled, the process still running: there
\* are more ticks than per-tick reports.
C7_Witness ==
  /\ fn = "runFirstAvailableCommandWithProgress"
  /\ isCancellationRequested
  /\ pc = "awaitResult"
  /\ ticks > Cardinality({j \in 1..Len(reports) :
                            reports[j].phase = "Analyzing"})

\* C8: whenever an error is caught from a candidate's launch or result while
\* isCancellationRequested is true, the function returns {cancelled: true}:
\* it launches no further candidate and throws nothing.
C8_CancellationBeatsClassification ==
  [][ ( /\ fn = "runFirstAvailableCommandWithProgress"
        /\ isCancellationRequested
        /\ Len(attempts') = Len(attempts) + 1
        /\ attempts'[Len(attempts')].settled = "rejected" )
      => /\ outcome' = Return([cancelled |-> TRUE])
         /\ launched' = launched ]_vars

\* A NotFound-class error was caught from the first of several candidates
\* after the user had cancelled.
C8_Witness ==
  /\ fn = "runFirstAvailableCommandWithProgress"
  /\ Len(commandCandidates) > 1
  /\ CancelledDuringAttempt
  /\ Len(attempts) = 1
  /\ NotFoundAttempt(attempts[1])
  /\ pc = "done"

\* The processes that were launched and have not settled.
ActiveProcesses(ps) == {k \in DOMAIN ps : ps[k] \in {"launching", "running"}}

\* C9: the cancellation callback of candidate K is live only while K's
\* process runs: at most one registration is live at a time, none is live
\* once the function has returned or thrown, and cancel() is called on K's
\* process only while K is running, never after its attempt has concluded.
C9_DisposedAfterAttempt ==
  /\ [](fn = "runFirstAvailableCommandWithProgress" =>
          /\ Cardinality(listeners) <= 1
          /\ \A k \in listeners : ProcState(procs, k) = "running"
          /\ (pc = "done" => listeners = {}))
  /\ [][fn = "runFirstAvailableCommandWithProgress" =>
          \A k \in DOMAIN procs :
            CancelCalls(cancels', k) > CancelCalls(cancels, k)
              => ProcState(procs', k) = "running"]_vars

\* The first candidate's attempt concluded, and the user cancelled while the
\* second was running: cancel() reached the second process only.
C9_Witness ==
  /\ fn = "runFirstAvailableCommandWithProgress"
  /\ requestedAt = [pc |-> "awaitResult", idx |-> 2]
  /\ attempts[1].at = "result"
  /\ cancels = <<2>>

\* C10: at most one process launched by the invocation is active at a time:
\* when candidate K+1 has been launched, every earlier candidate's launch or
\* result promise has settled.
C10_OneProcessAtATime ==
  /\ Cardinality(ActiveProcesses(procs)) <= 1
  /\ \A i \in 1..(Len(launched) - 1) :
       ProcState(procs, launched[i].index) = "settled"

\* runPowerShellScript: the timer of the first candidate fired, ticks came,
\* and the second candidate is running.
C10_Witness ==
  /\ fn = "runPowerShellScript"
  /\ 1 \in timedOut
  /\ ticks >= 1
  /\ ProcState(procs, 2) = "running"

----------------------------------------------------------------------------
(* The helper functions, each called on its own *)

\* The state of the runners, none of them being invoked.
runnerVars ==
  <<fn, commandCandidates, pc, idx, latestError, outcome, progressValue,
    isCancellationRequested, requestedAt, listeners, launched, attempts,
    procs, reports, cancels, ticks, isWindows, options, aborted, timers,
    signalListeners, timedOut>>

NoRunner ==
  /\ fn = "none"
  /\ commandCandidates = <<>>
  /\ pc = "idle"
  /\ idx = 0
  /\ latestError = Null
  /\ outcome = Pending
  /\ progressValue = Tenths(8, 0)
  /\ isCancellationRequested = FALSE
  /\ requestedAt = [pc |-> "never", idx |-> 0]
  /\ listeners = {}
  /\ launched = <<>>
  /\ attempts = <<>>
  /\ procs = <<>>
  /\ reports = <<>>
  /\ cancels = <<>>
  /\ ticks = 0
  /\ isWindows = TRUE
  /\ options = NoOptions
  /\ aborted = FALSE
  /\ timers = {}
  /\ signalListeners = {}
  /\ timedOut = {}

\* Message texts: a phrase, with the fact whether it holds one of the three
\* substrings in some mix of upper and lower case ...
Phrases ==
  { [text |-> "not found", notFound |-> TRUE],
    [text |-> "Not Found", notFound |-> TRUE],
    [text |-> "NOT FOUND", notFound |-> TRUE],
    [text |-> "nOT fOUND", notFound |-> TRUE],
    [text |-> "does not exist", notFound |-> TRUE],
    [text |-> "Does Not Exist", notFound |-> TRUE],
    [text |-> "DOES NOT EXIST", notFound |-> TRUE],
    [text |-> "cannot find", notFound |-> TRUE],
    [text |-> "Cannot Find", notFound |-> TRUE],
    [text |-> "CANNOT FIND", notFound |-> TRUE],
    [text |-> "", notFound |-> FALSE],
    [text |-> "notfound", notFound |-> FALSE],
    [text |-> "not  found", notFound |-> FALSE],
    [text |-> "not-found", notFound |-> FALSE],
    [text |-> "found not", notFound |-> FALSE],
    [text |-> "does not exit", notFound |-> FALSE],
    [text |-> "doesn't exist", notFound |-> FALSE],
    [text |-> "can not find", notFound |-> FALSE],
    [text |-> "cannot locate", notFound |-> FALSE],
    [text |-> "permission denied", notFound |-> FALSE],
    [text |-> "[object Object]", notFound |-> FALSE] }

\* ... put between a prefix and a suffix that hold none of them and cannot
\* complete one.
PhrasePrefixes == {"", "deno: ", "Error: The path "}
PhraseSuffixes == {"", ".", " (os error 2)"}

\* A value that is neither an Error nor a string: text is String(value).
JsOther(text) == [kind |-> "other", text |-> text, falsy |-> FALSE]

\* The thrown values isCommandNotFoundError is tried on: each text as the
\* message of an Error, as a thrown string and as String(value) of another
\* value.
Wraps(text) == {JsError(text), JsString(text), JsOther(text)}

ErrorCorpus ==
  UNION { { [error |-> wrap, notFound |-> phrase.notFound] :
            wrap \in Wraps(pre \o phrase.text \o suf) } :
          phrase \in Phrases, pre \in PhrasePrefixes,
          suf \in PhraseSuffixes }

\* String(value)
String(v) == v.text

\* String.prototype.replace(/'/g, "''")
RECURSIVE replaceQuotes(_)
replaceQuotes(s) ==
  IF Len(s) = 0 THEN ""
  ELSE (IF SubSeq(s, 1, 1) = "'" THEN "''" ELSE SubSeq(s, 1, 1))
       \o replaceQuotes(SubSeq(s, 2, Len(s)))

\* A slip escapeForPowerShellSingleQuotes could make: replace without the
\* g flag doubles the first quote only.
escapeForPowerShellSingleQuotes_FirstOnly(text) ==
  LET s == String(text)
      RECURSIVE replaceFirst(_)
      replaceFirst(t) ==
        IF Len(t) = 0 THEN ""
        ELSE IF SubSeq(t, 1, 1) = "'" THEN "''" \o SubSeq(t, 2, Len(t))
        ELSE SubSeq(t, 1, 1) \o replaceFirst(SubSeq(t, 2, Len(t)))
  IN  replaceFirst(s)

escapeForPowerShellSingleQuotes(text) == replaceQuotes(String(text))

\* The characters of the texts: the quote, a letter and a space.
Alphabet == {"'", "a", " "}

RECURSIVE TextsOfLength(_)
TextsOfLength(n) ==
  IF n = 0 THEN {""}
  ELSE {c \o t : c \in Alphabet, t \in TextsOfLength(n - 1)}

\* The texts escapeForPowerShellSingleQuotes is tried on: every string of
\* up to MaxTextLen characters, a file name with two quotes, and null.
EscapeInputs ==
  { [text |-> v] :
    v \in {JsString(t) : t \in UNION {TextsOfLength(n) : n \in 0..MaxTextLen}}
          \cup {JsString("O'Brien's file.txt"), Null} }

\* A settled promise.
Fulfilled(v) == [settled |-> "fulfilled", value |-> v]
RejectedWith(e) == [settled |-> "rejected", value |-> e]

\* What sigma.binary.getPath('deno') can settle with: a path, the bare name,
\* a name in another case, the empty string, null, or a rejection.
GetPathOutcomes ==
  {Fulfilled(JsString(path)) :
     path \in {"/usr/bin/deno", "C:\\deno\\deno.exe", "deno", "Deno", ""}}
  \cup {Fulfilled(Null)}
  \cup {RejectedWith(e) : e \in RejectionValues}

DenoArgs == {<<>>, <<"eval", "1">>, <<"run", "--allow-read", "script.ts">>}

DenoInputs ==
  {[denoArgs |-> a, getPath |-> g] : a \in DenoArgs, g \in GetPathOutcomes}

\* A slip getDenoCommandCandidates could make: the bare name pushed without
\* asking addedCommands.
getDenoCommandCandidates_NoDedupe(denoArgs, getPath) ==
  LET resolved == getPath.settled = "fulfilled" /\ Truthy(getPath.value)
      first == IF resolved
               THEN <<CommandCandidate(getPath.value.text, denoArgs)>>
               ELSE <<>>
  IN  Return(first \o <<CommandCandidate("deno", denoArgs)>>)

\* getDenoCommandCandidates(denoArgs), getPath being what the awaited
\* sigma.binary.getPath('deno') settles with.  A rejection is caught and
\* ignored (the empty catch block).
getDenoCommandCandidates(denoArgs, getPath) ==
  LET resolved == getPath.settled = "fulfilled" /\ Truthy(getPath.value)
      denoBinaryPath == getPath.value.text
      first == IF resolved /\ denoBinaryPath \notin {}
               THEN <<CommandCandidate(denoBinaryPath, denoArgs)>>
               ELSE <<>>
      addedCommands == IF resolved THEN {denoBinaryPath} ELSE {}
  IN  Return(first \o IF "deno" \notin addedCommands
                      THEN <<CommandCandidate("deno", denoArgs)>>
                      ELSE <<>>)

HelperInit ==
  /\ NoRunner
  /\ NoHandler
  /\ NoPair
  /\ NoDemo
  /\ call = "none"
  /\ arg \in ErrorCorpus \cup EscapeInputs \cup DenoInputs
  /\ value = Null

\* isCommandNotFoundError(error) is called.
CallIsCommandNotFoundError ==
  /\ call = "none"
  /\ arg \in ErrorCorpus
  /\ call' = "isCommandNotFoundError"
  /\ value' = isCommandNotFoundError(arg.error)
  /\ UNCHANGED <<arg, runnerVars, handlerVars, pairVars, demoVars>>

\* escapeForPowerShellSingleQuotes(text) is called.
CallEscapeForPowerShellSingleQuotes ==
  /\ call = "none"
  /\ arg \in EscapeInputs
  /\ call' = "escapeForPowerShellSingleQuotes"
  /\ value' = escapeForPowerShellSingleQuotes(arg.text)
  /\ UNCHANGED <<arg, runnerVars, handlerVars, pairVars, demoVars>>

\* getDenoCommandCandidates(denoArgs) is called and its await has settled.
CallGetDenoCommandCandidates ==
  /\ call = "none"
  /\ arg \in DenoInputs
  /\ call' = "getDenoCommandCandidates"
  /\ value' = getDenoCommandCandidates(arg.denoArgs, arg.getPath)
  /\ UNCHANGED <<arg, runnerVars, handlerVars, pairVars, demoVars>>

HelperNext ==
  \/ CallIsCommandNotFoundError
  \/ CallEscapeForPowerShellSingleQuotes
  \/ CallGetDenoCommandCandidates

HelperSpec == HelperInit /\ [][HelperNext]_vars

\* C11: an error is classified as NotFound exactly when its message
\* (error.message of an Error, the string itself, String(value) otherwise)
\* holds, whatever the case of its letters, one of 'not found',
\* 'does not exist', 'cannot find'.
C11_ClassifiedBySubstring ==
  call = "isCommandNotFoundError" => (value <=> arg.notFound)

\* A thrown string in mixed case was classified as NotFound.
C11_Witness ==
  /\ call = "isCommandNotFoundError"
  /\ arg.error = JsString("Error: The path Does Not Exist.")
  /\ value = TRUE

\* The number of quotes among the first n characters of s.
RECURSIVE QuotesBefore(_, _)
QuotesBefore(s, n) ==
  IF n = 0 THEN 0
  ELSE QuotesBefore(s, n - 1) + (IF SubSeq(s, n, n) = "'" THEN 1 ELSE 0)

\* out is s with each quote written twice and every other character kept,
\* in order.
QuotesDoubled(s, out) ==
  /\ Len(out) = Len(s) + QuotesBefore(s, Len(s))
  /\ \A i \in 1..Len(s) :
       LET j == i + QuotesBefore(s, i - 1)
           c == SubSeq(s, i, i)
       IN  IF c = "'" THEN SubSeq(out, j, j + 1) = "''"
           ELSE SubSeq(out, j, j) = c

\* PowerShell reading the body of a single-quoted literal from s, the text
\* after the opening quote: two quotes read as one quote, one quote closes
\* the literal and leaves the rest unread.
RECURSIVE ReadLiteral(_)
ReadLiteral(s) ==
  IF Len(s) = 0 THEN [text |-> "", closed |-> FALSE, rest |-> ""]
  ELSE IF SubSeq(s, 1, 1) # "'"
  THEN LET r == ReadLiteral(SubSeq(s, 2, Len(s)))
       IN  [r EXCEPT !.text = SubSeq(s, 1, 1) \o @]
  ELSE IF Len(s) >= 2 /\ SubSeq(s, 2, 2) = "'"
  THEN LET r == ReadLiteral(SubSeq(s, 3, Len(s)))
       IN  [r EXCEPT !.text = "'" \o @]
  ELSE [text |-> "", closed |-> TRUE, rest |-> SubSeq(s, 2, Len(s))]

\* Every maximal run of quotes in s has even length.
EvenQuoteRuns(s) ==
  \A i \in 1..Len(s), j \in 1..Len(s) :
    ( /\ i <= j
      /\ \A k \in i..j : SubSeq(s, k, k) = "'"
      /\ (i = 1 \/ SubSeq(s, i - 1, i - 1) # "'")
      /\ (j = Len(s) \/ SubSeq(s, j + 1, j + 1) # "'") )
    => (j - i + 1) % 2 = 0

\* C14: escapeForPowerShellSingleQuotes writes every quote twice and keeps
\* every other character in order; the output between two quotes reads
\* back, by PowerShell's rule, as the input and as nothing more, and every
\* maximal run of quotes in the output is of even length.
C14_EscapeRoundTrip ==
  call = "escapeForPowerShellSingleQuotes" =>
    LET literal == ReadLiteral(value \o "'")
    IN  /\ QuotesDoubled(String(arg.text), value)
        /\ literal.text = String(arg.text)
        /\ literal.closed
        /\ literal.rest = ""
        /\ EvenQuoteRuns(value)

\* The example of the file name with two quotes.
C14_Witness ==
  /\ call = "escapeForPowerShellSingleQuotes"
  /\ arg.text = JsString("O'Brien's file.txt")
  /\ value = "O''Brien''s file.txt"

\* The commands of a candidate list, in order.
Commands(list) == [i \in 1..Len(list) |-> list[i].command]

\* C12: whatever sigma.binary.getPath('deno') settles with,
\* getDenoCommandCandidates returns a non-empty list in which 'deno' occurs
\* once and last, no command occurs twice, a resolved path that is neither
\* empty nor 'deno' is first, and every candidate has the given arguments.
C12_DenoCandidates ==
  call = "getDenoCommandCandidates" =>
    /\ value.kind = "return"
    /\ LET list == value.value
           n == Len(list)
           getPath == arg.getPath
       IN  /\ n >= 1
           /\ list[n].command = "deno"
           /\ \A i \in 1..(n - 1) : list[i].command # "deno"
           /\ \A i \in 1..n, j \in 1..n :
                list[i].command = list[j].command => i = j
           /\ ( /\ getPath.settled = "fulfilled"
                /\ getPath.value.kind = "string"
                /\ getPath.value.text \notin {"", "deno"} )
              => (n = 2 /\ list[1].command = getPath.value.text)
           /\ \A i \in 1..n : list[i].args = arg.denoArgs

\* getPath resolved to the bare name: one candidate, 'deno'.
C12_Witness ==
  /\ call = "getDenoCommandCandidates"
  /\ arg.getPath = Fulfilled(JsString("deno"))
  /\ arg.denoArgs = <<"eval", "1">>
  /\ value = Return(<<CommandCandidate("deno", <<"eval", "1">>)>>)

----------------------------------------------------------------------------
(* Progress reports *)

\* The reports of the given phase, in order.
ReportsOf(phase) == SelectSeq(reports, LAMBDA r : r.phase = phase)

\* The last "Running" report among the first n reports names this command.
RECURSIVE RunningBefore(_)
RunningBefore(n) ==
  IF n = 0 THEN ""
  ELSE IF reports[n].phase = "Running" THEN reports[n].command
  ELSE RunningBefore(n - 1)

\* C18: while the token is not cancelled, runFirstAvailableCommandWithProgress
\* has made one "Running" report per launched candidate, in launch order,
\* with increment 8 for the first and 0 for the later ones, and one
\* "Analyzing" report of increment 0.4 per tick, naming the candidate launched
\* last; so the reports number the launches plus the ticks.
C18_OneReportPerAttemptAndTick ==
  (fn = "runFirstAvailableCommandWithProgress" /\ ~isCancellationRequested)
  => /\ Len(reports) = Len(launched) + ticks
     /\ ReportsOf("Running") =
          [i \in 1..Len(launched) |->
             Report("Running", launched[i].command,
                    IF i = 1 THEN Tenths(8, 0) ELSE 0)]
     /\ Len(ReportsOf("Analyzing")) = ticks
     /\ \A n \in 1..Len(reports) :
          reports[n].phase = "Analyzing" =>
            /\ reports[n].increment = Tenths(0, 4)
            /\ reports[n].command = RunningBefore(n - 1)

\* The first candidate was not found, the second one was launched and has
\* ticked: three reports.
C18_Witness ==
  /\ fn = "runFirstAvailableCommandWithProgress"
  /\ ~isCancellationRequested
  /\ Len(launched) = 2
  /\ ticks = 1
  /\ reports = << Report("Running", CommandPool[1], Tenths(8, 0)),
                  Report("Running", CommandPool[2], 0),
                  Report("Analyzing", CommandPool[2], Tenths(0, 4)) >>

----------------------------------------------------------------------------
(* The timeout of runPowerShellScript *)

\* runPowerShellScript told its caller of the timeout: it returned what
\* parseOutput made of the last result with timedOut true (the caller's
\* parser, or the default one when the caller gave none).  A thrown error
\* has no such field.
TimeoutSurfaced ==
  /\ outcome.kind = "return"
  /\ attempts # <<>>
  /\ attempts[Len(attempts)].settled = "resolved"
  /\ outcome.value =
       ParseOutput(options, ParseInput(commandCandidates[idx],
                                       attempts[Len(attempts)].value, TRUE))

\* C15: when the timer of a candidate fired while its process was running,
\* cancel() was called on that process, and runPowerShellScript ends by
\* telling its caller of the timeout, whether the process then exited with
\* code 0, exited with another code, or its result rejected.
C15_TimeoutSurfaced ==
  ( /\ fn = "runPowerShellScript"
    /\ timedOut # {}
    /\ pc = "done" )
  => /\ \A k \in timedOut : CancelCalls(cancels, k) >= 1
     /\ TimeoutSurfaced

----------------------------------------------------------------------------
(* The fallback of runPowerShellScript *)

\* Attempt a could not be launched: runWithProgress rejected with an error
\* of the NotFound class.
LaunchNotFound(a) == a.at = "launch" /\ NotFoundAttempt(a)

\* C20: runPowerShellScript launches a further candidate only after the
\* attempt before it could not be launched; once the process of candidate i
\* has run to completion, with any exit code and any stderr, candidate i is
\* the last one launched and the run ends with its output or its error.
C20_NextOnlyAfterLaunchFailure ==
  fn = "runPowerShellScript" =>
    \A i \in 1..Len(attempts) :
      /\ Len(launched) > i => LaunchNotFound(attempts[i])
      /\ attempts[i].settled = "resolved" =>
           /\ Len(launched) = i
           /\ pc = "done"
           /\ outcome \in
                { Return(ParseOutput(options,
                    ParseInput(commandCandidates[i], attempts[i].value,
                               i \in timedOut))),
                  Throw(ExecutionError(commandCandidates[i],
                                       attempts[i].value)) }

----------------------------------------------------------------------------
(* The handlers: analyze-file-deno, deno-json-tools, runtime-diagnostics *)

Handlers == {"analyze-file-deno", "deno-json-tools", "runtime-diagnostics"}

\* The two handlers that run their candidates inside sigma.ui.withProgress.
WithProgressHandler == handler \in {"analyze-file-deno", "runtime-diagnostics"}

\* file.path of the selected entry, and the JSON text of the modal.
FilePath == "C:\\O'Brien.txt"
JsonInput == "{\"name\":\"Sigma's\"}"

\* The PowerShell script of each handler, shortened to its first statements:
\* the handler's inputs come escaped between single quotes.
PowerShellScript(h) ==
  CASE h = "analyze-file-deno" ->
         "$targetPath = '"
         \o escapeForPowerShellSingleQuotes(JsString(FilePath))
         \o "'; Get-FileHash -LiteralPath $targetPath"
    [] h = "deno-json-tools" ->
         "$jsonInput = '"
         \o escapeForPowerShellSingleQuotes(JsString(JsonInput))
         \o "'; $action = '"
         \o escapeForPowerShellSingleQuotes(JsString("validate")) \o "'"
    [] h = "runtime-diagnostics" -> "$computerInfo = Get-ComputerInfo"

\* The arguments each handler gives to getDenoCommandCandidates.
DenoArgsOf(h) ==
  CASE h = "analyze-file-deno" ->
         <<"run", "--quiet", "--allow-read", "file-analysis.ts", FilePath>>
    [] h = "deno-json-tools" ->
         <<"run", "--quiet", "json-tools.ts", "validate", JsonInput>>
    [] h = "runtime-diagnostics" ->
         <<"run", "--quiet", "--allow-env", "--allow-sys", "runtime-info.ts">>

\* What a process can end with under a handler: the results of the runners
\* and an exit code 0 that printed a line break only.
HandlerResults ==
  Results \cup {ExecutionResult(0, "\n", "")}

\* What a launch or a result rejects with under a handler: one error of the
\* NotFound class and one fatal error.
HandlerRejections ==
  {JsError("deno: command not found"), JsError("permission denied")}

\* What sigma.binary.getPath('deno') settles with under a handler.
HandlerGetPath ==
  { Fulfilled(JsString("/usr/bin/deno")), Fulfilled(JsString("deno")),
    Fulfilled(Null), RejectedWith(JsError("deno: command not found")) }

\* String.prototype.trim, for the white space the outputs have.
RECURSIVE trim(_)
trim(s) ==
  IF Len(s) = 0 THEN ""
  ELSE IF SubSeq(s, 1, 1) \in {" ", "\n"} THEN trim(SubSeq(s, 2, Len(s)))
  ELSE IF SubSeq(s, Len(s), Len(s)) \in {" ", "\n"}
  THEN trim(SubSeq(s, 1, Len(s) - 1))
  ELSE s

\* The position of the first occurrence of sub in s from position i on, 0
\* when there is none.
RECURSIVE indexOf(_, _, _)
indexOf(s, sub, i) ==
  IF i + Len(sub) - 1 > Len(s) THEN 0
  ELSE IF SubSeq(s, i, i + Len(sub) - 1) = sub THEN i
  ELSE indexOf(s, sub, i + 1)

\* JSON.parse for the documents the scripts print: an object of one string
\* member, {"key":"value"}.  Anything else is a SyntaxError.
JSONParse(text) ==
  LET n == Len(text)
      colon == indexOf(text, "\":\"", 3)
      key == SubSeq(text, 3, colon - 1)
      member == SubSeq(text, colon + 3, n - 2)
  IN  IF n = 0 THEN Throw(JsError("Unexpected end of JSON input"))
      ELSE IF /\ n >= 7
              /\ SubSeq(text, 1, 2) = "{\""
              /\ SubSeq(text, n - 1, n) = "\"}"
              /\ colon # 0
              /\ colon + 3 <= n - 1
              /\ ~includes(key, "\"")
              /\ ~includes(member, "\"")
      THEN Return([key |-> key, value |-> member])
      ELSE Throw(JsError("Unexpected token in JSON"))

\* What the user gets to see.
Notification(type, title, subtitle) ==
  [ui |-> "notification", type |-> type, title |-> title, text |-> subtitle]
Modal(title, runtime) ==
  [ui |-> "modal", type |-> "result", title |-> title, text |-> runtime]
UpdateElement(text) ==
  [ui |-> "resultOutput", type |-> "text", title |-> "Deno JSON tools",
   text |-> text]

\* Nothing shown yet.
Nothing == [ui |-> "none"]

\* a || b on strings.
OrElse(a, b) == IF a # "" THEN a ELSE b

HandlerInit ==
  /\ handler \in Handlers
  /\ handlerPc = "start"
  /\ hasInput \in IF handler = "runtime-diagnostics" THEN {TRUE} ELSE BOOLEAN
  /\ execution = Null
  /\ shown = <<>>
  /\ isWindows \in BOOLEAN
  /\ fn = "none"
  /\ commandCandidates = <<>>
  /\ pc = "idle"
  /\ idx = 0
  /\ latestError = Null
  /\ outcome = Pending
  /\ progressValue = Tenths(8, 0)
  /\ isCancellationRequested = FALSE
  /\ requestedAt = [pc |-> "never", idx |-> 0]
  /\ listeners = {}
  /\ launched = <<>>
  /\ attempts = <<>>
  /\ procs = <<>>
  /\ reports = <<>>
  /\ cancels = <<>>
  /\ ticks = 0
  /\ options = NoOptions
  /\ aborted = FALSE
  /\ timers = {}
  /\ signalListeners = {}
  /\ timedOut = {}
  /\ NoHelperCall
  /\ NoPair
  /\ NoDemo

\* The handler is invoked: without its input it ends at once (lines 540-543,
\* 660-667); otherwise it computes fallbackCandidates, reports 'Preparing'
\* (increment 6) when it runs under withProgress, and awaits
\* getDenoCommandCandidates.
HandlerCall ==
  /\ handlerPc = "start"
  /\ IF ~hasInput
     THEN /\ handlerPc' = "done"
          /\ shown' = IF handler = "deno-json-tools"
                      THEN Append(shown,
                                  UpdateElement("JSON input is required."))
                      ELSE shown
          /\ reports' = reports
     ELSE /\ handlerPc' = "awaitDeno"
          /\ shown' = shown
          /\ reports' = IF WithProgressHandler
                        THEN Append(reports,
                                    Report("Preparing", "", Tenths(6, 0)))
                        ELSE reports
  /\ UNCHANGED <<helperVars, pairVars, demoVars>>
  /\ UNCHANGED <<handler, hasInput, execution>>
  /\ UNCHANGED <<fn, commandCandidates, pc, idx, latestError, outcome,
                 progressValue, isCancellationRequested, requestedAt,
                 listeners, launched, attempts, procs, cancels, ticks,
                 psVars>>

\* A slip HandlerCandidates could make: the fallback spread before the Deno
\* candidates.
HandlerCandidates_FallbackFirst(h, getPath, windows) ==
  (IF windows THEN getWindowsPowerShellCandidates(PowerShellScript(h))
   ELSE <<>>)
  \o getDenoCommandCandidates(DenoArgsOf(h), getPath).value

\* The candidate list of handler h: the Deno candidates, then the fallback.
HandlerCandidates(h, getPath, windows) ==
  getDenoCommandCandidates(DenoArgsOf(h), getPath).value
  \o (IF windows THEN getWindowsPowerShellCandidates(PowerShellScript(h))
      ELSE <<>>)

\* getDenoCommandCandidates has settled, getPath being what
\* sigma.binary.getPath('deno') settled with: the handler calls the runner
\* with the list.
HandlerBuildList(getPath) ==
  /\ handlerPc = "awaitDeno"
  /\ commandCandidates' = HandlerCandidates(handler, getPath, isWindows)
  /\ fn' = IF handler = "deno-json-tools" THEN "runFirstAvailableCommand"
           ELSE "runFirstAvailableCommandWithProgress"
  /\ handlerPc' = "awaitRun"
  /\ UNCHANGED <<helperVars, pairVars, demoVars>>
  /\ UNCHANGED <<handler, hasInput, execution, shown>>
  /\ UNCHANGED <<pc, idx, latestError, outcome, progressValue,
                 isCancellationRequested, requestedAt, listeners, launched,
                 attempts, procs, reports, cancels, ticks, psVars>>

\* What the withProgress callback returns or throws: the catch of lines
\* 574-579 and 744-749 turns a throw under a cancelled token into
\* {cancelled: true}.
CallbackOutcome ==
  IF WithProgressHandler /\ outcome.kind = "throw" /\ isCancellationRequested
  THEN Return([cancelled |-> TRUE])
  ELSE outcome

\* Line 774.
RuntimeLabel(commandName) ==
  IF commandName = "deno" THEN "Deno" ELSE "PowerShell"

\* The text shown when the run threw.
FailureText(h, error) ==
  OrElse(getErrorMessage(error),
         CASE h = "analyze-file-deno" -> "Failed to analyze file"
           [] h = "runtime-diagnostics" -> "Failed to get system info"
           [] h = "deno-json-tools" ->
                "No supported runtime found. "
                \o "Install Deno or use Windows PowerShell.")

\* The text shown for a non-zero exit code.
ExitText(h, exec) ==
  OrElse(exec.result.stderr,
         exec.commandName \o
         (CASE h = "analyze-file-deno" -> " exited with an error"
            [] h = "runtime-diagnostics" -> " failed to get system info"
            [] h = "deno-json-tools" -> " exited with a non-zero code"))

ErrorTitle(h) ==
  IF h = "analyze-file-deno" THEN "Analysis error" ELSE "System info"

\* What the handler shows once its run has settled with exec, Nothing when
\* it goes on to the process diagnostics first (lines 778-790).
Shows(h, exec, windows) ==
  IF exec.kind = "throw"
  THEN IF h = "deno-json-tools"
       THEN UpdateElement(FailureText(h, exec.value))
       ELSE Notification("error", ErrorTitle(h), FailureText(h, exec.value))
  ELSE IF "cancelled" \in DOMAIN exec.value /\ exec.value.cancelled
  THEN Notification("warning",
         IF h = "analyze-file-deno" THEN "Analysis cancelled"
         ELSE "System info cancelled", "")
  ELSE IF exec.value.result.code # 0
  THEN IF h = "deno-json-tools" THEN UpdateElement(ExitText(h, exec.value))
       ELSE Notification("error",
              IF h = "analyze-file-deno" THEN "Analysis failed"
              ELSE "System info", ExitText(h, exec.value))
  ELSE LET parsed == JSONParse(trim(exec.value.result.stdout))
       IN  IF parsed.kind = "throw"
           THEN IF h = "deno-json-tools"
                THEN UpdateElement(FailureText(h, parsed.value))
                ELSE Notification("error", ErrorTitle(h),
                                  FailureText(h, parsed.value))
           ELSE CASE h = "deno-json-tools" ->
                       UpdateElement(parsed.value.value)
                  [] h = "analyze-file-deno" -> Modal("File analysis", "")
                  [] h = "runtime-diagnostics" ->
                       IF windows THEN Nothing
                       ELSE Modal("System info",
                                  RuntimeLabel(exec.value.commandName))

\* The runner has settled: the handler shows the outcome, or, for the
\* runtime diagnostics on Windows, calls runPowerShellScript with a timeout
\* of 15000 and its own parser.  That is a new invocation: the records of
\* the first one (launches, attempts, reports, ticks) start anew.
HandlerRunSettled ==
  /\ handlerPc = "awaitRun"
  /\ pc = "done"
  /\ execution' = CallbackOutcome
  /\ LET show == Shows(handler, CallbackOutcome, isWindows)
     IN  IF show = Nothing
         THEN /\ handlerPc' = "awaitDiagnostics"
              /\ shown' = shown
              /\ fn' = "runPowerShellScript"
              /\ options' =
                   [timeout |-> 15000, signal |-> FALSE, parseOutput |-> TRUE]
              /\ commandCandidates' = <<>>
              /\ pc' = "idle"
              /\ idx' = 0
              /\ latestError' = Null
              /\ outcome' = Pending
              /\ launched' = <<>>
              /\ attempts' = <<>>
              /\ procs' = <<>>
              /\ cancels' = <<>>
              /\ reports' = <<>>
              /\ ticks' = 0
         ELSE /\ handlerPc' = "done"
              /\ shown' = Append(shown, show)
              /\ UNCHANGED <<fn, options, commandCandidates, pc, idx,
                             latestError, outcome, launched, attempts, procs,
                             cancels, reports, ticks>>
  /\ UNCHANGED <<helperVars, pairVars, demoVars>>
  /\ UNCHANGED <<handler, hasInput>>
  /\ UNCHANGED <<progressValue, isCancellationRequested, requestedAt,
                 listeners, isWindows, aborted, timers, signalListeners,
                 timedOut>>

\* The System info modal on Windows: the Runtime field and the text of the
\* 'PowerShell Process Diagnostics' section (lines 815-846).
SystemInfoModal(runtime, diagnostics) ==
  [ui |-> "modal", type |-> "result", title |-> "System info",
   text |-> runtime, diagnostics |-> diagnostics]

\* Line 788.
DiagnosticsErrorMessage(error) ==
  OrElse(getErrorMessage(error),
         "PowerShell process diagnostics are unavailable.")

\* What the diagnostics section shows once runPowerShellScript has settled
\* with out.  The parser of line 783 is JSON.parse(stdout): when it throws,
\* the error leaves runPowerShellScript through its catch clause and line
\* 787 catches it as it catches every other one.
ProcessDiagnosticsText(out) ==
  IF out.kind = "throw" THEN DiagnosticsErrorMessage(out.value)
  ELSE LET parsed == JSONParse(out.value.parsed.stdout)
       IN  IF parsed.kind = "throw"
           THEN DiagnosticsErrorMessage(parsed.value)
           ELSE "Running Processes"

\* A slip HandlerDiagnosticsSettled could make: the failure of
\* runPowerShellScript left to the outer catch (lines 853-858).
HandlerDiagnosticsSettled_OuterCatch ==
  /\ handlerPc = "awaitDiagnostics"
  /\ pc = "done"
  /\ shown' = Append(shown,
       IF outcome.kind = "throw"
       THEN Notification("error", "System info",
                         FailureText(handler, outcome.value))
       ELSE SystemInfoModal(RuntimeLabel(execution.value.commandName),
                            ProcessDiagnosticsText(outcome)))
  /\ handlerPc' = "done"
  /\ UNCHANGED <<helperVars, pairVars, demoVars>>
  /\ UNCHANGED <<handler, hasInput, execution>>
  /\ UNCHANGED runnerVars

\* runPowerShellScript has settled, with the diagnostics or an error that
\* line 787 catches: the System info modal is created.
HandlerDiagnosticsSettled ==
  /\ handlerPc = "awaitDiagnostics"
  /\ pc = "done"
  /\ shown' = Append(shown,
       SystemInfoModal(RuntimeLabel(execution.value.commandName),
                       ProcessDiagnosticsText(outcome)))
  /\ handlerPc' = "done"
  /\ UNCHANGED <<helperVars, pairVars, demoVars>>
  /\ UNCHANGED <<handler, hasInput, execution>>
  /\ UNCHANGED runnerVars

\* The steps of a handler and of the runner it awaits.  The catch of the
\* withProgress callback reads the token in the turn in which the runner
\* settles, so a cancellation comes before that turn.
HandlerNext ==
  \/ HandlerCall
  \/ \E getPath \in HandlerGetPath : HandlerBuildList(getPath)
  \/ HandlerRunSettled
  \/ HandlerDiagnosticsSettled
  \/ RunCall
  \/ \E result \in HandlerResults : RunResolved(result)
  \/ \E error \in HandlerRejections : RunRejected(error)
  \/ ProgressCall
  \/ \E error \in HandlerRejections : ProgressLaunchRejected(error)
  \/ \E fires \in BOOLEAN : ProgressLaunchResolved(fires)
  \/ \E result \in HandlerResults : ProgressResultResolved(result)
  \/ \E error \in HandlerRejections : ProgressResultRejected(error)
  \/ \E k \in DOMAIN procs : ProgressTick(k)
  \/ pc # "done" /\ RequestCancellation
  \/ PsCall
  \/ \E error \in HandlerRejections : PsLaunchRejected(error)
  \/ PsLaunchResolved
  \/ \E k \in timers : PsTimeout(k)
  \/ \E result \in HandlerResults : PsResultResolved(result)
  \/ \E error \in HandlerRejections : PsResultRejected(error)
  \/ \E k \in DOMAIN procs : PsTick(k)

HandlerSpec == HandlerInit /\ [][HandlerNext]_vars

----------------------------------------------------------------------------
(* Properties of the handlers *)

\* The command identifiers of the PowerShell fallback, in their order.
PowerShellCommands ==
  << "powershell", "pwsh",
     "C:\\Windows\\System32\\WindowsPowerShell\\v1.0\\powershell.exe" >>

IsPowerShell(command) == \E i \in 1..3 : command = PowerShellCommands[i]

\* The number of candidates before the first PowerShell one.
DenoCount ==
  Cardinality({i \in 1..Len(commandCandidates) :
                 \A j \in 1..i : ~IsPowerShell(commandCandidates[j].command)})

\* C13: the list a handler hands to its runner is one or two Deno
\* candidates, the last of them the bare 'deno', followed on Windows by
\* exactly powershell, pwsh and the System32 path, each with -NoProfile,
\* -Command and the handler's script, and by nothing elsewhere; and a
\* PowerShell process is launched only after every Deno candidate has failed
\* with an error of the NotFound class.
C13_DenoBeforePowerShell ==
  (handlerPc \in {"awaitRun", "done"} /\ ListRunner) =>
    LET n == DenoCount
        list == commandCandidates
    IN  /\ n \in 1..2
        /\ list[n].command = "deno"
        /\ \A i \in 1..n : list[i].args = DenoArgsOf(handler)
        /\ SubSeq(list, n + 1, Len(list)) =
             IF isWindows
             THEN [i \in 1..3 |->
                     CommandCandidate(PowerShellCommands[i],
                       <<"-NoProfile", "-Command",
                         PowerShellScript(handler)>>)]
             ELSE <<>>
        /\ \A j \in 1..Len(launched) :
             IsPowerShell(launched[j].command) =>
               \A i \in 1..n :
                 /\ i < j
                 /\ i <= Len(attempts)
                 /\ NotFoundAttempt(attempts[i])

\* On Windows, after the resolved path and the bare name were not found,
\* powershell is launched as the third candidate.
C13_Witness ==
  /\ handler = "runtime-diagnostics"
  /\ handlerPc = "awaitRun"
  /\ isWindows
  /\ Len(commandCandidates) = 5
  /\ Len(launched) = 3
  /\ launched[3].command = "powershell"
  /\ NotFoundAttempt(attempts[1])
  /\ NotFoundAttempt(attempts[2])

\* The user asked for cancellation while the run under withProgress was on:
\* before the runner was called, or while a candidate was being launched or
\* was running.
CancelledDuringRun ==
  requestedAt.pc \in {"idle", "awaitLaunch", "awaitResult"}

IsCancellationNotice(s) == s.ui = "notification" /\ s.type = "warning"
IsErrorNotice(s) ==
  s.ui = "notification" /\ s.type = "error" /\ s.text # ""
IsResultModal(s) == s.ui = "modal"

\* C16: an invocation of the analyze-file handler with a file, or of the
\* runtime-diagnostics handler, ends with one thing shown: a result modal,
\* an error notification with a message, or a cancellation notification;
\* and the cancellation notification is the one shown exactly when the user
\* asked for cancellation during the run.
C16_OneOutcomeOfThree ==
  (WithProgressHandler /\ hasInput /\ handlerPc = "done") =>
    /\ Len(shown) = 1
    /\ \/ IsResultModal(shown[1])
       \/ IsErrorNotice(shown[1])
       \/ IsCancellationNotice(shown[1])
    /\ IsCancellationNotice(shown[1]) <=> CancelledDuringRun

\* The commands getDenoCommandCandidates can put in a list.
DenoCommands ==
  UNION { {c.command : c \in
             { getDenoCommandCandidates(<<>>, g).value[i] :
               i \in 1..Len(getDenoCommandCandidates(<<>>, g).value) }} :
          g \in HandlerGetPath }

\* C17: the Runtime field of the System info modal is 'Deno' when the
\* candidate that succeeded was one of the Deno candidates, the resolved
\* path or the bare name, and 'PowerShell' when it was one of the fallback.
C17_RuntimeLabel ==
  ( /\ handler = "runtime-diagnostics"
    /\ handlerPc = "done"
    /\ shown # <<>>
    /\ IsResultModal(shown[1]) )
  => shown[1].text =
       IF execution.value.commandName \in DenoCommands THEN "Deno"
       ELSE "PowerShell"

----------------------------------------------------------------------------
(* Two invocations whose awaits interleave *)

\* The length of the candidate lists of the two invocations.
PairCandidates == 2

\* The variables of a runner are those of one invocation: all of them are
\* local to the call (lines 46-53, 157, 196-197).  Invocation gathers them.
Invocation ==
  [ fn |-> fn,
    commandCandidates |-> commandCandidates,
    pc |-> pc,
    idx |-> idx,
    latestError |-> latestError,
    outcome |-> outcome,
    progressValue |-> progressValue,
    isCancellationRequested |-> isCancellationRequested,
    requestedAt |-> requestedAt,
    listeners |-> listeners,
    launched |-> launched,
    attempts |-> attempts,
    procs |-> procs,
    reports |-> reports,
    cancels |-> cancels,
    ticks |-> ticks,
    isWindows |-> isWindows,
    options |-> options,
    aborted |-> aborted,
    timers |-> timers,
    signalListeners |-> signalListeners,
    timedOut |-> timedOut ]

\* The invocation inv is the one the variables hold.
Running(inv) ==
  /\ fn = inv.fn
  /\ commandCandidates = inv.commandCandidates
  /\ pc = inv.pc
  /\ idx = inv.idx
  /\ latestError = inv.latestError
  /\ outcome = inv.outcome
  /\ progressValue = inv.progressValue
  /\ isCancellationRequested = inv.isCancellationRequested
  /\ requestedAt = inv.requestedAt
  /\ listeners = inv.listeners
  /\ launched = inv.launched
  /\ attempts = inv.attempts
  /\ procs = inv.procs
  /\ reports = inv.reports
  /\ cancels = inv.cancels
  /\ ticks = inv.ticks
  /\ isWindows = inv.isWindows
  /\ options = inv.options
  /\ aborted = inv.aborted
  /\ timers = inv.timers
  /\ signalListeners = inv.signalListeners
  /\ timedOut = inv.timedOut

\* The invocation inv goes on: the variables hold it from now on.
Resume(inv) ==
  /\ fn' = inv.fn
  /\ commandCandidates' = inv.commandCandidates
  /\ pc' = inv.pc
  /\ idx' = inv.idx
  /\ latestError' = inv.latestError
  /\ outcome' = inv.outcome
  /\ progressValue' = inv.progressValue
  /\ isCancellationRequested' = inv.isCancellationRequested
  /\ requestedAt' = inv.requestedAt
  /\ listeners' = inv.listeners
  /\ launched' = inv.launched
  /\ attempts' = inv.attempts
  /\ procs' = inv.procs
  /\ reports' = inv.reports
  /\ cancels' = inv.cancels
  /\ ticks' = inv.ticks
  /\ isWindows' = inv.isWindows
  /\ options' = inv.options
  /\ aborted' = inv.aborted
  /\ timers' = inv.timers
  /\ signalListeners' = inv.signalListeners
  /\ timedOut' = inv.timedOut

\* An invocation at its call.
Called(f, cands, opts) ==
  [ fn |-> f, commandCandidates |-> cands, pc |-> "idle", idx |-> 0,
    latestError |-> Null, outcome |-> Pending,
    progressValue |-> Tenths(8, 0), isCancellationRequested |-> FALSE,
    requestedAt |-> [pc |-> "never", idx |-> 0], listeners |-> {},
    launched |-> <<>>, attempts |-> <<>>, procs |-> <<>>, reports |-> <<>>,
    cancels |-> <<>>, ticks |-> 0, isWindows |-> TRUE, options |-> opts,
    aborted |-> FALSE, timers |-> {}, signalListeners |-> {},
    timedOut |-> {} ]

\* The invocations a pair is made of: each runner, the list runners with the
\* list of the first PairCandidates commands, runPowerShellScript with a
\* parser and without a signal.
PairInvocations ==
  { Called(f, [i \in 1..PairCandidates |->
                 CommandCandidate(CommandPool[i], <<"arg">>)], NoOptions) :
    f \in {"runFirstAvailableCommand",
           "runFirstAvailableCommandWithProgress"} }
  \cup { Called("runPowerShellScript", <<>>,
                [NoOptions EXCEPT !.parseOutput = TRUE]) }

\* What the awaits of the two invocations reject with.
PairRejections ==
  {JsError("deno: command not found"), JsError("permission denied")}

\* How their processes end: with a document, or with a non-zero code.
PairResults == {r \in Results : r.stdout # "" \/ r.stderr # ""}

PairInit ==
  /\ suspended \in PairInvocations
  /\ \E inv \in PairInvocations : Running(inv)
  /\ NoHelperCall
  /\ NoHandler
  /\ NoDemo

\* A slip Switch could make: timedOut kept in one place for all
\* invocations, so that the invocation resumed finds the other one's flag.
Switch_SharedTimedOut ==
  /\ suspended' = Invocation
  /\ LET inv == suspended
     IN
       /\ fn' = inv.fn
       /\ commandCandidates' = inv.commandCandidates
       /\ pc' = inv.pc
       /\ idx' = inv.idx
       /\ latestError' = inv.latestError
       /\ outcome' = inv.outcome
       /\ progressValue' = inv.progressValue
       /\ isCancellationRequested' = inv.isCancellationRequested
       /\ requestedAt' = inv.requestedAt
       /\ listeners' = inv.listeners
       /\ launched' = inv.launched
       /\ attempts' = inv.attempts
       /\ procs' = inv.procs
       /\ reports' = inv.reports
       /\ cancels' = inv.cancels
       /\ ticks' = inv.ticks
       /\ isWindows' = inv.isWindows
       /\ options' = inv.options
       /\ aborted' = inv.aborted
       /\ timers' = inv.timers
       /\ signalListeners' = inv.signalListeners
       /\ timedOut' = timedOut
  /\ UNCHANGED <<helperVars, handlerVars, demoVars>>

\* The invocation that runs is suspended at its await (or has not been
\* called yet, or is done) and a step of the other one is next.
Switch ==
  /\ suspended' = Invocation
  /\ Resume(suspended)
  /\ UNCHANGED <<helperVars, handlerVars, demoVars>>

PairNext ==
  \/ Switch
  \/ RunCall
  \/ \E result \in PairResults : RunResolved(result)
  \/ \E error \in PairRejections : RunRejected(error)
  \/ ProgressCall
  \/ \E error \in PairRejections : ProgressLaunchRejected(error)
  \/ \E fires \in BOOLEAN : ProgressLaunchResolved(fires)
  \/ \E result \in PairResults : ProgressResultResolved(result)
  \/ \E error \in PairRejections : ProgressResultRejected(error)
  \/ RequestCancellation
  \/ PsCall
  \/ \E error \in PairRejections : PsLaunchRejected(error)
  \/ PsLaunchResolved
  \/ \E k \in timers : PsTimeout(k)
  \/ \E result \in PairResults : PsResultResolved(result)
  \/ \E error \in PairRejections : PsResultRejected(error)

PairSpec == PairInit /\ [][PairNext]_vars

\* The user cancelled invocation inv before its last attempt settled.
CancelledInTime(inv) == inv.requestedAt.pc \notin {"never", "done"}

\* What invocation inv, done, returns or throws when it runs alone, told
\* from its arguments, from how its processes settled (attempts), from its
\* own token (requestedAt) and from its own timers (each cancel() of
\* runPowerShellScript is a timer's: no signal is given).
AloneOutcome(inv) ==
  LET n == Len(inv.attempts)
      last == inv.attempts[n]
      candidate == inv.commandCandidates[n]
  IN  CASE inv.fn = "runFirstAvailableCommand" ->
             IF n = 0
             THEN Throw(JsError("No available command candidates"))
             ELSE IF last.settled = "resolved"
             THEN Return([result |-> last.value,
                          commandName |-> candidate.command])
             ELSE Throw(last.value)
        [] inv.fn = "runFirstAvailableCommandWithProgress" ->
             IF n = 0
             THEN IF inv.commandCandidates # <<>> /\ CancelledInTime(inv)
                  THEN Return([cancelled |-> TRUE])
                  ELSE Throw(JsError("No available command candidates"))
             ELSE IF last.settled = "resolved"
             THEN Return([cancelled |-> FALSE, result |-> last.value,
                          commandName |-> candidate.command])
             ELSE IF CancelledInTime(inv)
             THEN Return([cancelled |-> TRUE])
             ELSE Throw(last.value)
        [] inv.fn = "runPowerShellScript" ->
             IF ~inv.isWindows
             THEN Throw(JsError(
               "PowerShell script execution is only supported on Windows."))
             ELSE IF n = 0
             THEN Throw(JsError(
                    "No available PowerShell command candidates"))
             ELSE IF last.settled = "rejected" THEN Throw(last.value)
             ELSE IF last.value.code # 0
             THEN Throw(ExecutionError(candidate, last.value))
             ELSE Return(ParseOutput(inv.options,
                    ParseInput(candidate, last.value,
                      \E j \in 1..Len(inv.cancels) : inv.cancels[j] = n)))

\* Invocation inv, once done, has launched its candidates in list order, one
\* per settled attempt, and has ended as it does alone.
AsAlone(inv) ==
  inv.pc = "done" =>
    /\ inv.launched =
         [i \in 1..Len(inv.attempts) |-> Launch(inv.commandCandidates, i)]
    /\ inv.outcome = AloneOutcome(inv)

\* C19: of two invocations whose awaits interleave in any way, each launches
\* the candidates and ends with the outcome that its own arguments, its own
\* processes' outcomes, its own token and its own timers give when it runs
\* alone.
C19_InvocationsIndependent ==
  suspended # Null =>
    AsAlone(Invocation) /\ AsAlone(suspended)

\* Two invocations of runPowerShellScript are done, after steps of both: the
\* timer of one fired, the timer of the other did not.
C19_Witness ==
  /\ suspended # Null
  /\ pc = "done"
  /\ suspended.pc = "done"
  /\ fn = "runPowerShellScript"
  /\ cancels # <<>>
  /\ outcome.kind = "return"
  /\ suspended.fn = "runPowerShellScript"
  /\ suspended.cancels = <<>>
  /\ suspended.outcome.kind = "return"

----------------------------------------------------------------------------
(* Termination of the runners *)

\* What the awaits reject with and what the processes end with, when
\* termination is looked at: one error of the NotFound class, one fatal
\* error, a success and a failure.
LiveRejections ==
  {JsError("deno: command not found"), JsError("permission denied")}
LiveResults == {r \in Results : r.stdout # "" \/ r.stderr # ""}

\* A promise the runner awaits settles: sigma.shell.run, the launch by
\* sigma.shell.runWithProgress, or runningCommand.result.
Settles ==
  \/ \E result \in LiveResults : RunResolved(result)
  \/ \E error \in LiveRejections : RunRejected(error)
  \/ \E error \in LiveRejections : ProgressLaunchRejected(error)
  \/ \E fires \in BOOLEAN : ProgressLaunchResolved(fires)
  \/ \E result \in LiveResults : ProgressResultResolved(result)
  \/ \E error \in LiveRejections : ProgressResultRejected(error)
  \/ \E error \in LiveRejections : PsLaunchRejected(error)
  \/ PsLaunchResolved
  \/ \E result \in LiveResults : PsResultResolved(result)
  \/ \E error \in LiveRejections : PsResultRejected(error)

\* The steps of an invocation and of what goes on around it: the call, the
\* settling promises, the user's cancellation, the timer, the abort signal.
LiveNext ==
  \/ RunCall
  \/ ProgressCall
  \/ PsCall
  \/ Settles
  \/ RequestCancellation
  \/ \E k \in timers : PsTimeout(k)
  \/ Abort

\* The runners under a host whose promises all settle in the end.
LiveSpec == Init /\ [][LiveNext]_vars /\ WF_vars(Settles)

\* C21: every launch and result promise settling in the end, an invocation
\* that was called returns or throws in the end; at every moment its
\* launches are the first candidates of its list, in list order and each
\* once, so never more than the list has; and the loop never steps back.
C21_TerminatesInListOrder ==
  /\ [](launched = [i \in 1..Len(launched) |->
                      Launch(commandCandidates, i)])
  /\ [](Len(launched) <= Len(commandCandidates))
  /\ [][idx' >= idx]_vars
  /\ (pc # "idle") ~> (pc = "done")

\* A runner is done after it launched every candidate of a list of
\* several.
C21_Witness ==
  /\ pc = "done"
  /\ Len(commandCandidates) >= 2
  /\ Len(launched) = Len(commandCandidates)

(***************************************************************************)
(* Timers and 'abort' listeners of runPowerShellScript                     *)
(***************************************************************************)

\* The attempt at candidate idx is between the launch and the end of its
\* result: the only stretch in which its timer and listener exist.
AwaitingResult == pc = "awaitResult"

\* No timer is pending and no listener is registered.
NothingPending == timers = {} /\ signalListeners = {}

\* A cancel() call is made in this step, and each one made is a call on the
\* process of the candidate the loop is at.
CancelsOnlyCurrent ==
  cancels' # cancels =>
    /\ idx' = idx
    /\ Len(cancels') > Len(cancels)
    /\ SubSeq(cancels', 1, Len(cancels)) = cancels
    /\ \A n \in Len(cancels) + 1 .. Len(cancels') : cancels'[n] = idx

\* C22: in runPowerShellScript, however an attempt ends, its timer is
\* cleared and its 'abort' listener removed before the next candidate is
\* launched or the function exits: timers and listeners exist only for the
\* candidate whose result is awaited, none is left once the function has
\* returned or thrown, and every cancel() is a call on the current
\* candidate's process, never on a later one's.
C22_TimerAndListenerCleared ==
  /\ [](fn = "runPowerShellScript" =>
          /\ timers \subseteq {idx}
          /\ signalListeners \subseteq {idx}
          /\ (~AwaitingResult => NothingPending))
  /\ [][fn = "runPowerShellScript" => CancelsOnlyCurrent]_vars

\* A second attempt was made after a first one whose timer and listener were
\* set and whose process ended by itself, and the function has exited.
C22_Witness ==
  /\ fn = "runPowerShellScript"
  /\ pc = "done"
  /\ options.signal /\ ~aborted
  /\ timedOut = {}
  /\ Len(attempts) >= 2
  /\ \A n \in 1..Len(attempts) : attempts[n].at = "result"
  /\ NothingPending

----------------------------------------------------------------------------
(* runPowerShellScript off Windows, and under the runtime diagnostics *)

\* runPowerShellScript called by itself on either platform, or a handler
\* invoked.
DiagnosticsInit ==
  \/ Init /\ fn = "runPowerShellScript"
  \/ HandlerInit

DiagnosticsNext == HandlerNext \/ Abort

DiagnosticsSpec == DiagnosticsInit /\ [][DiagnosticsNext]_vars

NotOnWindows ==
  Throw(JsError("PowerShell script execution is only supported on Windows."))

\* C23: where isWindows is false runPowerShellScript throws 'PowerShell
\* script execution is only supported on Windows.' with no process
\* launched, no timer armed and no listener put on options.signal; the
\* runtime-diagnostics handler calls runPowerShellScript on Windows only,
\* and when that call fails the System info modal is still the one thing
\* shown, the error's message being the text of its diagnostics section.
C23_WindowsOnly ==
  /\ (fn = "runPowerShellScript" /\ ~isWindows) =>
       /\ launched = <<>>
       /\ attempts = <<>>
       /\ cancels = <<>>
       /\ timers = {}
       /\ timedOut = {}
       /\ signalListeners = {}
       /\ pc = "done" => outcome = NotOnWindows
  /\ (handler = "runtime-diagnostics" /\ fn = "runPowerShellScript") =>
       /\ isWindows
       /\ handlerPc = "done" =>
            /\ Len(shown) = 1
            /\ shown[1].ui = "modal"
            /\ shown[1].title = "System info"
            /\ outcome.kind = "throw" =>
                 shown[1].diagnostics = DiagnosticsErrorMessage(outcome.value)

\* The handler has ended after runPowerShellScript threw.
C23_Witness ==
  /\ handler = "runtime-diagnostics"
  /\ handlerPc = "done"
  /\ fn = "runPowerShellScript"
  /\ outcome.kind = "throw"
  /\ shown[1].ui = "modal"

----------------------------------------------------------------------------
(* The demo-progress command *)

\* Line 479.
totalItems == 10

\* The command is invoked at most this many times, one time after the other.
MaxDemoRuns == 3

\* Lines 498-501 and 507-511: the increments in tenths, as everywhere.
ItemReport(i) ==
  [description |-> "Item " \o ToString(i) \o " of " \o ToString(totalItems),
   increment |-> Tenths(100 \div totalItems, 0)]
ProcessedReport(n) ==
  [subtitle |-> "Processed", description |-> ToString(n) \o " items",
   increment |-> Tenths(100, 0)]

\* Lines 518-522.
CancelledNotice(processed) ==
  Notification("warning", "Processing cancelled",
    "Processed " \o ToString(processed) \o " of " \o ToString(totalItems)
      \o " items before cancellation.")

\* What the demo-progress command leaves alone.
demoFrame ==
  <<fn, commandCandidates, pc, idx, latestError, outcome, progressValue,
    listeners, launched, attempts, procs, cancels, ticks, psVars, helperVars,
    handler, handlerPc, hasInput, execution, pairVars>>

DemoInit ==
  /\ NoRunner
  /\ NoHelperCall
  /\ NoHandler
  /\ NoPair
  /\ demoPc = "idle"
  /\ itemIndex = 0
  /\ processedItems = 0
  /\ demoResult = Null
  /\ demoRuns = 0

\* A slip DemoCall could make: processedItems kept outside the handler, so
\* that an invocation goes on from the count of the one before.
DemoCall_SharedCount ==
  /\ demoPc \in {"idle", "done"}
  /\ demoRuns < MaxDemoRuns
  /\ processedItems' = processedItems
  /\ itemIndex' = 0
  /\ demoResult' = Null
  /\ isCancellationRequested' = FALSE
  /\ requestedAt' = [pc |-> "never", idx |-> 0]
  /\ reports' = <<>>
  /\ shown' = <<>>
  /\ demoPc' = "called"
  /\ UNCHANGED <<demoRuns, demoFrame>>

\* The command is invoked, lines 478-482: processedItems is 0 and
\* withProgress is called, which makes a progress and a token of its own.
\* The records of what this invocation reports and shows start empty.
DemoCall ==
  /\ demoPc \in {"idle", "done"}
  /\ demoRuns < MaxDemoRuns
  /\ processedItems' = 0
  /\ itemIndex' = 0
  /\ demoResult' = Null
  /\ isCancellationRequested' = FALSE
  /\ requestedAt' = [pc |-> "never", idx |-> 0]
  /\ reports' = <<>>
  /\ shown' = <<>>
  /\ demoPc' = "called"
  /\ UNCHANGED <<demoRuns, demoFrame>>

\* The for loop reaches itemIndex = i with processedItems = n (lines
\* 493-512): the callback returns at the cancellation check, sleeps after
\* the report of item i + 1, or returns after the loop.
DemoIterate(i, n) ==
  /\ itemIndex' = i
  /\ processedItems' = n
  /\ IF i < totalItems
     THEN IF isCancellationRequested
          THEN /\ demoResult' = [completed |-> FALSE, processed |-> n]
               /\ demoPc' = "settled"
               /\ reports' = reports
          ELSE /\ demoResult' = demoResult
               /\ demoPc' = "sleep"
               /\ reports' = Append(reports, ItemReport(i + 1))
     ELSE /\ demoResult' = [completed |-> TRUE, processed |-> n]
          /\ demoPc' = "settled"
          /\ reports' = Append(reports, ProcessedReport(n))

\* The host runs the callback (lines 488-493): the listener it registers
\* only logs.
DemoStart ==
  /\ demoPc = "called"
  /\ DemoIterate(0, processedItems)
  /\ UNCHANGED <<isCancellationRequested, requestedAt, shown, demoRuns,
                 demoFrame>>

\* sleep(500) is over, lines 503-504.
DemoSleepDone ==
  /\ demoPc = "sleep"
  /\ DemoIterate(itemIndex + 1, processedItems + 1)
  /\ UNCHANGED <<isCancellationRequested, requestedAt, shown, demoRuns,
                 demoFrame>>

\* withProgress resolves with what the callback returned, lines 516-523.
DemoSettled ==
  /\ demoPc = "settled"
  /\ shown' = IF ~demoResult.completed
              THEN Append(shown, CancelledNotice(demoResult.processed))
              ELSE shown
  /\ demoPc' = "done"
  /\ demoRuns' = demoRuns + 1
  /\ UNCHANGED <<itemIndex, processedItems, demoResult,
                 isCancellationRequested, requestedAt, reports, demoFrame>>

\* The user cancels while the progress notification is there.
DemoRequestCancellation ==
  /\ demoPc \in {"called", "sleep", "settled"}
  /\ ~isCancellationRequested
  /\ isCancellationRequested' = TRUE
  /\ requestedAt' = [pc |-> demoPc, idx |-> itemIndex]
  /\ UNCHANGED <<demoVars, reports, shown, demoFrame>>

DemoNext ==
  \/ DemoCall
  \/ DemoStart
  \/ DemoSleepDone
  \/ DemoSettled
  \/ DemoRequestCancellation

DemoSpec == DemoInit /\ [][DemoNext]_vars

\* The iteration at whose start the token is found cancelled, -1 when there
\* is none: the first one that starts after the user's request.
ObservedAt ==
  IF requestedAt.pc = "called" THEN 0
  ELSE IF requestedAt.pc = "sleep" /\ requestedAt.idx + 1 < totalItems
  THEN requestedAt.idx + 1
  ELSE -1

\* C24: whenever the user cancels, an invocation of the demo-progress
\* command ends with completed = false exactly when the token is found
\* cancelled at the start of an iteration k < 10, and then processed = k,
\* the k reports of items 1..k are the ones made and the 'Processing
\* cancelled' warning with 'k of 10' is shown once; otherwise it ends with
\* completed = true, processed = 10, the ten item reports and the final one,
\* and no warning, also when the user cancelled after the last iteration
\* had started.  processedItems never exceeds 10.
C24_DemoProgress ==
  /\ processedItems <= totalItems
  /\ demoPc = "done" =>
       LET k == ObservedAt
       IN  IF k >= 0
           THEN /\ demoResult = [completed |-> FALSE, processed |-> k]
                /\ reports = [i \in 1..k |-> ItemReport(i)]
                /\ shown = <<CancelledNotice(k)>>
           ELSE /\ demoResult = [completed |-> TRUE, processed |-> totalItems]
                /\ reports = [i \in 1..totalItems |-> ItemReport(i)]
                              \o <<ProcessedReport(totalItems)>>
                /\ shown = <<>>

\* A second invocation was cancelled during the sleep of its fourth item.
C24_Witness ==
  /\ demoPc = "done"
  /\ demoRuns = 2
  /\ requestedAt = [pc |-> "sleep", idx |-> 3]
  /\ demoResult = [completed |-> FALSE, processed |-> 4]


====
